---- MODULE Spec2Model ----
(***************************************************************************)
(* RedactFlow: the PDF sanitization pipeline of src/nodes.                 *)
(*                                                                         *)
(* The pipeline is the LangGraph state graph that build_sanitizer_graph    *)
(* assembles (src/nodes/orchestrator.py): seven nodes that are handed the  *)
(* one mutable pipeline record (a dict) in turn, and three routers that    *)
(* read the record's routing tag next_node.  Each field of the record is   *)
(* one variable below, under the key the source uses.  The external        *)
(* providers (reasoning provider, knowledge lookup, text extraction, the   *)
(* document library) are nondeterministic choices over small sets of the   *)
(* results they can return, failure included.                              *)
(***************************************************************************)
EXTENDS Integers, Sequences, FiniteSets, TLC

\* ------------------------------------------------------------------ bounds

\* How many decisions (Approve / Reject) the caller supplies at the Human
\* Gate in one run, one that is already on the record at the start included.
MaxDecisions == 2

\* The largest ceiling max_evaluator_cycles a record is started with.
MaxMaxCycles == 2

\* How many Manual Regions the user keeps at a time, and how many workflow
\* runs the user starts on one uploaded document.
MaxManual == 2

MaxRuns == 2
MaxCommits == 2
MaxMapped == 2
\* The largest coordinate of an analysed polygon, and the largest page
\* dimension, in the runs of the Coordinate Normalizer.
MaxCoord == 3
MaxDim == 2

\* ------------------------------------------------- program constants, keys

\* state.get("max_evaluator_cycles", 3)
DefaultMaxCycles == 3

\* state.get("evaluator_cycles", 0)
DefaultCycles == 0

\* A counter key that is not in the dict.
NoCount == -1

\* A string key that is not in the dict (or holds None).
NoKey == "<none>"

\* The node names of the graph, and the two ways a run ends: the END node,
\* and an exception that leaves a node and aborts graph.invoke.
Nodes == {"Orchestrator", "Searcher", "Detector", "Evaluator", "Highlighter",
          "HumanInLoop", "Redactor"}

END == "__end__"

Aborted == "<raised>"

\* ------------------------------------------------------- provider results

\* str.strip() on the strings the model uses.
Strip(s) ==
    CASE s = " "     -> ""
      [] s = " a"    -> "a"
      [] s = " q "   -> "q"
      [] s = " Yes " -> "Yes"
      [] s = "p "    -> "p"
      [] OTHER       -> s

\* str(x or "").strip(): a missing key or None reads as "".
StrOrEmpty(x) == IF x = NoKey THEN "" ELSE Strip(x)

\* The free-text requests a caller supplies.
Prompts == {" ", "p "}

\* sensitive_descriptions as the routing inference can return them (raw:
\* blank entries and padding included).
RawDescLists == {<<>>, <<" a", "">>, <<"a", "a">>, <<" ">>}

\* next_node and search_query as the routing inference can return them.
DecisionNodes == {"Searcher", "Detector", "Redactor"}

DecisionQueries == {NoKey, " ", " q "}

\* descriptions as the knowledge lookup's summarizer can return them
\* (already stripped and filtered, searcher_node.py:105; [] on failure).
SearchDescLists == {<<>>, <<"b">>, <<"a", "b">>}

\* feedback_message as the Evaluator's reasoning call can return it.
Feedbacks == {"", "a"}

\* The element lists an extraction pass can return ([] on failure).
PageOcrResults == {<<>>, <<"para1">>, <<"para1", "para2">>}

WordOcrResults == {<<>>, <<"w1", "w2">>}

\* The content values the Classifier can return ([] on failure), and the
\* values the Mapper resolves to word elements (the others are dropped).
ClassifierResults == {<<>>, <<1>>, <<1, 2>>}

\* What the reasoning provider gives the Classifier: the call raises (or
\* returns something that is not a ContentAnalysisOutput, which raises at
\* res.items), or it returns items.
ClassifierAnswers ==
    {[raised |-> TRUE, items |-> <<>>]}
        \cup {[raised |-> FALSE, items |-> c] : c \in ClassifierResults}

MapperKept == {{}, {1}, {1, 2}}

\* What the record's routing tag and decision can hold when a run starts.
InitTags == {NoKey, "Redactor"}

InitApprovals == {NoKey, " Yes ", "maybe"}

\* ------------------------------------------------------ documents and paths

\* A path is its directory and the tokens its base name is made of: the
\* file output/redacted/doc_AI_REDACTED.pdf is
\* [dir |-> "output/redacted", name |-> <<"doc", "AI", "REDACTED">>].
\* NoPath is the empty string, and a path key that is not in the dict.
MakePath(dir, name) == [dir |-> dir, name |-> name]

NoPath == MakePath("", <<>>)

\* The uploaded document, saved under output/original.
OriginalPath == MakePath("output/original", <<"doc">>)

\* len(doc): the number of pages of the uploaded document.
NumPages == 2

\* A region: a 1-based page number and a bounding box in page points.
Rect(page, x0, y0, x1, y1) ==
    [page_number |-> page, bbox |-> [x0 |-> x0, y0 |-> y0, x1 |-> x1, y1 |-> y1]]

\* The regions of the model: on page 2 a value's box, a second box redrawn
\* approximately over it, and the box of another value; a box with the
\* first one's coordinates on a page the document does not have.
RegionA == Rect(2, 100, 200, 130, 210)

RegionB == Rect(2, 102, 201, 132, 211)

RegionC == Rect(2, 140, 200, 170, 210)

RegionOut == Rect(3, 100, 200, 130, 210)

\* The content of the uploaded document: spots of text and of image data.
Spot(page, x, y, kind) == [page |-> page, x |-> x, y |-> y, kind |-> kind]

Spots ==
    {Spot(2, 110, 205, "text"), Spot(2, 120, 206, "image"),
     Spot(2, 150, 205, "text"), Spot(1, 110, 205, "text")}

\* A file holds, at each spot, the content as uploaded ("intact"), nothing
\* but the black fill ("removed"), or the content with the black fill drawn
\* over it ("covered"); and the boxes that carry a highlight annotation.
OriginalContent ==
    [spots |-> [s \in Spots |-> "intact"], highlights |-> {}]

\* The files on disk once the document is uploaded (app.py:252).
OriginalFiles == (OriginalPath :> OriginalContent)

\* ------------------------------------------------------------------- state

VARIABLES
    pc,                          \* the node the graph runs next
    user_prompt,
    pdf_path,
    sensitive_data_description,  \* the guidance list
    search_query,
    page_level_pdf_elements,     \* extraction cache, page/paragraph level
    word_level_pdf_elements,     \* extraction cache, word level
    sensitive_data,              \* the Sensitive Regions
    evaluator_cycles,            \* loop counter (NoCount: key absent)
    max_evaluator_cycles,        \* ceiling (NoCount: key absent)
    preview_pdf_path,
    final_pdf_path,
    next_node,                   \* routing tag
    user_approval,               \* the human decision
    hist,                        \* history of the run, read by the properties only
    manual_rectangles,           \* the Manual Regions (st.session_state)
    files,                       \* the files on disk: path -> content
    session,                     \* the rest of st.session_state
    ops                          \* what the last handler did, read by the properties only

vars == <<pc, user_prompt, pdf_path, sensitive_data_description, search_query,
          page_level_pdf_elements, word_level_pdf_elements, sensitive_data,
          evaluator_cycles, max_evaluator_cycles, preview_pdf_path,
          final_pdf_path, next_node, user_approval, hist,
          manual_rectangles, files, session, ops>>

\* The variables only the interactive application (src/app.py) changes.
appvars == <<manual_rectangles, files, session, ops>>

\* st.session_state after init_session_state and the upload handler.
\*   show_approval_buttons, preview_approved   the flags of app.py:40-41
\*   original_ai_detections   the copy kept for Reset Drawings (<<>>: no key)
\*   aliased   sensitive_data and original_ai_detections are one list object
\*   runs      workflow runs started so far
\*   produced  the Sensitive Regions the latest completed workflow run left
\*             on the record (kept for the properties only)
InitSession ==
    [show_approval_buttons |-> FALSE, preview_approved |-> FALSE,
     original_ai_detections |-> <<>>, aliased |-> FALSE, runs |-> 0,
     produced |-> <<>>]

\* No handler has run yet.
\*   last       the handler that took the last step
\*   aiIn, aiOut, aiRegions   the document the AI redaction opened, the file
\*              it saved and the regions it committed (NoPath, <<>>: none)
\*   manIn, manOut, manRegions   the same for the manual redaction
\*   manAsked   the regions the manual redaction was called with
\*   aiBase     the path the Approve handler took as the AI-redacted result
\*   moved      the file a rename took away (NoPath: none)
\*   error      a redaction error occurred (a page outside the document, or
\*              a failure while applying or saving)
\*   reported   the handler reported a failure to the user (st.error)
\*   drawn      the rectangle the canvas handler processed
\* What the reasoning provider gave the Coordinate Mapper: it raised, or
\* it returned items (page_number, content, element_ids).
MapperAnswer(raised, items) == [raised |-> raised, items |-> items]

\* What the two extraction passes are given for a page: the unit and the
\* page dimensions the analysis reports (0: missing or zero), the polygon
\* of the one text element on the page, whether the analysis gives it as
\* a paragraph or as a line, and the native point dimensions of the page.
AnalysedPage(unit, width, height, polygon, as_paragraph, pdf_pt_w, pdf_pt_h) ==
    [unit |-> unit, width |-> width, height |-> height, polygon |-> polygon,
     as_paragraph |-> as_paragraph, pdf_pt_w |-> pdf_pt_w,
     pdf_pt_h |-> pdf_pt_h]

NoPage == AnalysedPage("", 0, 0, <<>>, FALSE, 0, 0)

\* The thread pool of _run_dual_ocr_parallel while no extraction runs.
\*   at        where the caller's thread is: "idle" (before the call),
\*             "collect" (in the as_completed loop), "exit" (leaving the
\*             with block), "returned", "done" (_first_detection finished)
\*   running   the futures whose task has not finished
\*   order     the futures in the order their tasks finished
\*   pageResult, wordResult   what each task returned
\*   yielded   the futures the as_completed loop has handled
\*   page_elements, word_elements   the two local result lists
NoPool ==
    [at |-> "idle", running |-> {}, order |-> <<>>, pageResult |-> <<>>,
     wordResult |-> <<>>, yielded |-> {}, page_elements |-> <<>>,
     word_elements |-> <<>>]

NoOps ==
    [last |-> "none", answer |-> MapperAnswer(FALSE, <<>>),
     analysed |-> NoPage, pool |-> NoPool, aiIn |-> NoPath, aiOut |-> NoPath, aiRegions |-> <<>>,
     manIn |-> NoPath, manOut |-> NoPath, manRegions |-> <<>>,
     manAsked |-> <<>>, aiBase |-> NoPath, moved |-> NoPath,
     error |-> FALSE, reported |-> FALSE, drawn |-> <<>>]

\* An EvaluationResult, as far as run_evaluator reads it.
Verdict(issues_found, feedback_message) ==
    [issues_found |-> issues_found, feedback_message |-> feedback_message]

NoVerdict == Verdict(FALSE, NoKey)

\* The fields a fresh history starts with.
\*   last         the node (or "caller") that took the last step
\*   detRuns      executions of Detection since the last Intake
\*   extracted    the last execution of Detection ran the dual extraction
\*   ocrFailed    the last extraction failed or returned no elements
\*   ocrRetried   an extraction ran after an earlier one had failed
\*   classifier   what the Classifier's reasoning call did in the last
\*                execution of Detection ("none": it was not called)
\*   gateRead     the decision run_hitl read in its last execution
\*   supplied     decisions put on the record (by the caller, or at the start)
\*   applied      executions of run_hitl that acted on a decision
\*   startCycles  the loop counter when the last Intake ran
\*   allIssues    every Evaluator reasoning call since the last Intake
\*                reported issues_found with a feedback message
\*   evalPath     the branch the last Evaluation took
\*   verdict      the verdict the Evaluator's reasoning call returned in
\*                the last Evaluation (NoVerdict: it was not called, or it
\*                raised)
\*   rejected     a Reject has been processed in the run
\*   reruns       the times the Evaluator has sent the run back to
\*                Detection, over the whole run
InitHist(appr) ==
    [last |-> "start", detRuns |-> 0, extracted |-> FALSE, ocrFailed |-> FALSE,
     ocrRetried |-> FALSE, classifier |-> "none",
     gateRead |-> "", supplied |-> IF appr = NoKey THEN 0 ELSE 1,
     applied |-> 0, startCycles |-> 0, allIssues |-> TRUE,
     evalPath |-> "none", verdict |-> NoVerdict, rejected |-> FALSE,
     reruns |-> 0]

\* A fresh pipeline record: what the caller hands to graph.invoke.  The
\* loop counter starts absent or 0, the extraction cache and the Sensitive
\* Regions empty; the routing tag and the decision may hold anything.
Init ==
    /\ pc = "Orchestrator"
    /\ user_prompt \in {NoKey, "p "}
    /\ pdf_path \in {NoPath, OriginalPath}
    /\ sensitive_data_description \in {<<>>, <<"a">>}
    /\ search_query = NoKey
    /\ page_level_pdf_elements = <<>>
    /\ word_level_pdf_elements = <<>>
    /\ sensitive_data = <<>>
    /\ evaluator_cycles \in {NoCount, 0}
    /\ max_evaluator_cycles \in {NoCount} \cup (0..MaxMaxCycles)
    /\ preview_pdf_path = NoPath
    /\ final_pdf_path = NoPath
    /\ next_node \in InitTags
    /\ user_approval \in InitApprovals
    /\ hist = InitHist(user_approval)
    /\ manual_rectangles = <<>>
    /\ files = OriginalFiles
    /\ session = InitSession
    /\ ops = NoOps

\* state.get("evaluator_cycles", 0) and state.get("max_evaluator_cycles", 3).
Cycles == IF evaluator_cycles = NoCount THEN DefaultCycles ELSE evaluator_cycles

MaxCycles ==
    IF max_evaluator_cycles = NoCount THEN DefaultMaxCycles ELSE max_evaluator_cycles

\* ------------------------------------------------------------ Orchestrator

\* [d.strip() for d in (res.sensitive_descriptions or []) if d and d.strip()]
RECURSIVE CleanDescs(_)
CleanDescs(raw) ==
    IF raw = <<>> THEN <<>>
    ELSE LET d == Head(raw)
         IN  IF d # "" /\ Strip(d) # ""
             THEN <<Strip(d)>> \o CleanDescs(Tail(raw))
             ELSE CleanDescs(Tail(raw))

\* Mutant of OrchestratorGuidance: the derived descriptions replace the list.
OrchestratorGuidance_Replaces(existing, raw) ==
    IF CleanDescs(raw) # <<>> THEN CleanDescs(raw) ELSE existing

\* The guidance list after the routing inference returned raw descriptions.
OrchestratorGuidance(existing, raw) ==
    IF CleanDescs(raw) # <<>> THEN existing \o CleanDescs(raw) ELSE existing

\* (res.search_query or "").strip() and res.next_node == "Searcher"
RoutesToSearcher(res_next, res_query) ==
    StrOrEmpty(res_query) # "" /\ res_next = "Searcher"

route_from_orchestrator(nxt) ==
    IF StrOrEmpty(nxt) \in {"Searcher", "Detector"} THEN StrOrEmpty(nxt) ELSE "Detector"

\* Intake.
orchestrator_node ==
    /\ pc = "Orchestrator"
    /\ user_prompt' = IF user_prompt = NoKey THEN "" ELSE user_prompt
    /\ \/ \* no prompt
          /\ StrOrEmpty(user_prompt) = ""
          /\ next_node' = "Detector"
          /\ UNCHANGED <<sensitive_data_description, search_query>>
       \/ \* the routing inference raised
          /\ StrOrEmpty(user_prompt) # ""
          /\ next_node' = "Detector"
          /\ UNCHANGED <<sensitive_data_description, search_query>>
       \/ \* the routing inference returned a decision
          /\ StrOrEmpty(user_prompt) # ""
          /\ \E res_next \in DecisionNodes, raw \in RawDescLists,
                res_query \in DecisionQueries :
                /\ sensitive_data_description' =
                       OrchestratorGuidance(sensitive_data_description, raw)
                /\ IF RoutesToSearcher(res_next, res_query)
                   THEN /\ search_query' = Strip(res_query)
                        /\ next_node' = "Searcher"
                   ELSE /\ search_query' = search_query
                        /\ next_node' = "Detector"
    /\ pc' = route_from_orchestrator(next_node')
    /\ hist' = [hist EXCEPT !.last = "Orchestrator", !.detRuns = 0,
                            !.startCycles = Cycles, !.allIssues = TRUE]
    /\ UNCHANGED <<pdf_path, page_level_pdf_elements, word_level_pdf_elements,
                   sensitive_data, evaluator_cycles, max_evaluator_cycles,
                   preview_pdf_path, final_pdf_path, user_approval,
                   appvars>>

\* ---------------------------------------------------------------- Searcher

\* list(dict.fromkeys(xs)): the first occurrence of each entry, in order.
RECURSIVE FromKeys(_, _)
FromKeys(xs, seen) ==
    IF xs = <<>> THEN <<>>
    ELSE IF Head(xs) \in seen
         THEN FromKeys(Tail(xs), seen)
         ELSE <<Head(xs)>> \o FromKeys(Tail(xs), seen \cup {Head(xs)})

\* The guidance list after the knowledge lookup returned desc.
SearcherGuidance(existing, desc) ==
    IF desc # <<>> THEN FromKeys(existing \o desc, {}) ELSE existing

\* Context Lookup.  Searcher.search catches its own failures and then
\* returns no descriptions, so a failed lookup is the result <<>>.
run_searcher ==
    /\ pc = "Searcher"
    /\ IF StrOrEmpty(search_query) = ""
       THEN UNCHANGED <<sensitive_data_description, search_query>>
       ELSE /\ \E desc \in SearchDescLists :
                  sensitive_data_description' =
                      SearcherGuidance(sensitive_data_description, desc)
            /\ search_query' = NoKey
    /\ pc' = "Detector"
    /\ hist' = [hist EXCEPT !.last = "Searcher"]
    /\ UNCHANGED <<user_prompt, pdf_path, page_level_pdf_elements,
                   word_level_pdf_elements, sensitive_data, evaluator_cycles,
                   max_evaluator_cycles, preview_pdf_path, final_pdf_path,
                   next_node, user_approval,
                   appvars>>

\* ---------------------------------------------------------------- Detector

\* Mutant of CacheMissing: Detection never consults the cache.
CacheMissing_IgnoresCache(page, word) == TRUE

\* not state.get("word_level_pdf_elements") or not state.get("page_level_pdf_elements")
CacheMissing(page, word) == word = <<>> \/ page = <<>>

\* Mutant of DualOcrFailed: the result of the extraction is not looked at.
DualOcrFailed_NeverFails(page, word) == FALSE

\* _first_detection: if not page_elements or not word_elements
DualOcrFailed(page, word) == page = <<>> \/ word = <<>>

\* Mutant of first_llm_content_analysis: a failed call leaves a placeholder
\* value.
first_llm_content_analysis_Placeholder(answer) ==
    IF answer.raised THEN <<1>> ELSE answer.items

\* _first_llm_content_analysis, from the provider's answer on: the items
\* it returned, [] if it raised.  The guidance goes into the instruction
\* (a built-in one stands in for an empty list) and the page content into
\* the payload: what comes back is the provider's choice.
first_llm_content_analysis(answer) ==
    IF answer.raised THEN <<>> ELSE answer.items

\* What hist.classifier records for an answer.
ClassifierOutcome(answer) == IF answer.raised THEN "raised" ELSE "returned"

\* _run_dual_llm_analysis: the Classifier's values c (none on failure), of
\* which the Mapper places those in kept (none on failure).
DualLlm(c, kept) ==
    IF c = <<>> THEN <<>> ELSE SelectSeq(c, LAMBDA v : v \in kept)

\* Detection.
run_detector ==
    /\ pc = "Detector"
    /\ \/ \* no document path
          /\ pdf_path = NoPath
          /\ UNCHANGED <<page_level_pdf_elements, word_level_pdf_elements,
                         sensitive_data>>
          /\ hist' = [hist EXCEPT !.last = "Detector", !.detRuns = @ + 1,
                                  !.extracted = FALSE,
                                  !.classifier = "none"]
       \/ \* Case 1: first detection, with the dual extraction
          /\ pdf_path # NoPath
          /\ CacheMissing(page_level_pdf_elements, word_level_pdf_elements)
          /\ \E page \in PageOcrResults, word \in WordOcrResults :
                IF DualOcrFailed(page, word)
                THEN /\ UNCHANGED <<page_level_pdf_elements,
                                    word_level_pdf_elements, sensitive_data>>
                     /\ hist' = [hist EXCEPT !.last = "Detector",
                                             !.detRuns = @ + 1,
                                             !.extracted = TRUE,
                                             !.ocrRetried = @ \/ hist.ocrFailed,
                                             !.ocrFailed = TRUE,
                                             !.classifier = "none"]
                ELSE /\ page_level_pdf_elements' = page
                     /\ word_level_pdf_elements' = word
                     /\ \E answer \in ClassifierAnswers, kept \in MapperKept :
                           /\ sensitive_data' =
                                  DualLlm(first_llm_content_analysis(answer), kept)
                           /\ hist' = [hist EXCEPT
                                         !.last = "Detector",
                                         !.detRuns = @ + 1,
                                         !.extracted = TRUE,
                                         !.ocrRetried = @ \/ hist.ocrFailed,
                                         !.ocrFailed = FALSE,
                                         !.classifier = ClassifierOutcome(answer)]
       \/ \* Case 2: feedback detection on the cached extraction
          /\ pdf_path # NoPath
          /\ ~CacheMissing(page_level_pdf_elements, word_level_pdf_elements)
          /\ \E answer \in ClassifierAnswers, kept \in MapperKept :
                /\ sensitive_data' =
                       DualLlm(first_llm_content_analysis(answer), kept)
                /\ hist' = [hist EXCEPT !.last = "Detector", !.detRuns = @ + 1,
                                        !.extracted = FALSE,
                                        !.classifier = ClassifierOutcome(answer)]
          /\ UNCHANGED <<page_level_pdf_elements, word_level_pdf_elements>>
    /\ pc' = "Evaluator"
    /\ UNCHANGED <<user_prompt, pdf_path, sensitive_data_description,
                   search_query, evaluator_cycles, max_evaluator_cycles,
                   preview_pdf_path, final_pdf_path, next_node, user_approval,
                   appvars>>

\* --------------------------------------------------------------- Evaluator

\* Mutants of CeilingReached: an off-by-one comparison, and a comparison
\* with the default ceiling instead of the record's.
CeilingReached_OffByOne(cycles, max) == cycles > max

CeilingReached_DefaultMax(cycles, max) == cycles >= DefaultMaxCycles

\* if evaluator_cycles >= max_cycles
CeilingReached(cycles, max) == cycles >= max

\* Mutant of WantsFeedbackPass: the feedback message is not looked at.
WantsFeedbackPass_IgnoresMessage(issues_found, feedback_message) ==
    issues_found

\* if res.issues_found and res.feedback_message
WantsFeedbackPass(issues_found, feedback_message) ==
    issues_found /\ feedback_message # ""

\* Mutant of EvaluatorGuidance: the feedback replaces the guidance.
EvaluatorGuidance_Replaces(existing, feedback_message) == <<feedback_message>>

\* state["sensitive_data_description"].append(res.feedback_message)
EvaluatorGuidance(existing, feedback_message) ==
    Append(existing, feedback_message)

\* Mutant of NextCycles: the counter is written back without the increment.
NextCycles_NoIncrement(cycles) == cycles

\* Mutant of NextCycles: the counter is written back as 1.
NextCycles_Restarts(cycles) == 1

\* state["evaluator_cycles"] = evaluator_cycles + 1
NextCycles(cycles) == cycles + 1

\* Mutant of route_from_evaluator: the fallback is Detection.
route_from_evaluator_FallsBackToDetector(nxt) ==
    IF StrOrEmpty(nxt) \in {"Detector", "Highlighter"}
    THEN StrOrEmpty(nxt) ELSE "Detector"

\* Mutant of route_from_evaluator: the tag is returned without the fallback.
route_from_evaluator_NoFallback(nxt) == StrOrEmpty(nxt)

route_from_evaluator(nxt) ==
    IF StrOrEmpty(nxt) \in {"Detector", "Highlighter"}
    THEN StrOrEmpty(nxt) ELSE "Highlighter"

\* Evaluation.
run_evaluator ==
    /\ pc = "Evaluator"
    /\ max_evaluator_cycles' = MaxCycles
    /\ \/ \* the ceiling is reached
          /\ CeilingReached(Cycles, MaxCycles)
          /\ next_node' = "HumanInLoop"
          /\ evaluator_cycles' = Cycles
          /\ UNCHANGED sensitive_data_description
          /\ hist' = [hist EXCEPT !.last = "Evaluator", !.evalPath = "ceiling",
                                  !.verdict = NoVerdict]
       \/ \* no guidance to evaluate against
          /\ ~CeilingReached(Cycles, MaxCycles)
          /\ sensitive_data_description = <<>>
          /\ next_node' = "HumanInLoop"
          /\ evaluator_cycles' = Cycles
          /\ UNCHANGED sensitive_data_description
          /\ hist' = [hist EXCEPT !.last = "Evaluator", !.evalPath = "noguidance",
                                  !.verdict = NoVerdict]
       \/ \* the reasoning call raised
          /\ ~CeilingReached(Cycles, MaxCycles)
          /\ sensitive_data_description # <<>>
          /\ next_node' = "HumanInLoop"
          /\ evaluator_cycles' = Cycles
          /\ UNCHANGED sensitive_data_description
          /\ hist' = [hist EXCEPT !.last = "Evaluator", !.evalPath = "error", !.verdict = NoVerdict,
                                  !.allIssues = FALSE]
       \/ \* the reasoning call returned a verdict
          /\ ~CeilingReached(Cycles, MaxCycles)
          /\ sensitive_data_description # <<>>
          /\ \E issues_found \in BOOLEAN, feedback_message \in Feedbacks :
                IF WantsFeedbackPass(issues_found, feedback_message)
                THEN /\ sensitive_data_description' =
                            EvaluatorGuidance(sensitive_data_description,
                                              feedback_message)
                     /\ evaluator_cycles' = NextCycles(Cycles)
                     /\ next_node' = "Detector"
                     /\ hist' = [hist EXCEPT !.last = "Evaluator",
                                             !.evalPath = "feedback",
                                             !.reruns = @ + 1,
                                             !.verdict =
                                                 Verdict(issues_found,
                                                         feedback_message)]
                ELSE /\ next_node' = "HumanInLoop"
                     /\ evaluator_cycles' = Cycles
                     /\ UNCHANGED sensitive_data_description
                     /\ hist' = [hist EXCEPT !.last = "Evaluator",
                                             !.evalPath = "accept",
                                             !.verdict =
                                                 Verdict(issues_found,
                                                         feedback_message),
                                             !.allIssues = FALSE]
    /\ pc' = route_from_evaluator(next_node')
    /\ UNCHANGED <<user_prompt, pdf_path, search_query, page_level_pdf_elements,
                   word_level_pdf_elements, sensitive_data, preview_pdf_path,
                   final_pdf_path, user_approval,
                   appvars>>

\* ------------------------------------------------------ document library

\* os.path.splitext(filename)[0] + "_PREVIEW.pdf" in output/preview
PreviewPath(path) == MakePath("output/preview", path.name \o <<"PREVIEW">>)

\* basename(pdf_path).replace('.pdf', '') + "_AI_REDACTED.pdf" in output/redacted
AiOutputPath(path) == MakePath("output/redacted", path.name \o <<"AI", "REDACTED">>)

\* basename(pdf_path).replace('.pdf', '') + "_MANUAL_REDACTED.pdf" in output/redacted
ManualOutputPath(path) ==
    MakePath("output/redacted", path.name \o <<"MANUAL", "REDACTED">>)

\* "_AI_REDACTED" in ai_base_name
HasAiRedacted(name) ==
    \E i \in 1 .. (Len(name) - 1) : name[i] = "AI" /\ name[i + 1] = "REDACTED"

\* ai_base_name.replace("_AI_REDACTED", "")
RECURSIVE DropAiRedacted(_)
DropAiRedacted(name) ==
    IF Len(name) < 2 THEN name
    ELSE IF name[1] = "AI" /\ name[2] = "REDACTED"
         THEN DropAiRedacted(SubSeq(name, 3, Len(name)))
         ELSE <<Head(name)>> \o DropAiRedacted(Tail(name))

\* ai_base_name.replace("_REDACTED", "").replace("_MANUAL_REDACTED", ""):
\* once every "_REDACTED" is gone the second replace finds nothing.
DropRedacted(name) ==
    <<Head(name)>> \o SelectSeq(Tail(name), LAMBDA t : t # "REDACTED")

\* clean_base + "_COMBINED_REDACTED.pdf" in output/redacted
CombinedOutputPath(ai_path) ==
    LET clean == IF HasAiRedacted(ai_path.name)
                 THEN DropAiRedacted(ai_path.name)
                 ELSE DropRedacted(ai_path.name)
    IN  MakePath("output/redacted", clean \o <<"COMBINED", "REDACTED">>)

\* os.path.exists(path)
Exists(fs, path) == path \in DOMAIN fs

\* fs with content saved at path (a new file, or an existing one replaced).
Save(fs, path, content) ==
    [f \in DOMAIN fs \cup {path} |-> IF f = path THEN content ELSE fs[f]]

\* os.rename(src, dst)
Rename(fs, src, dst) ==
    [f \in (DOMAIN fs \ {src}) \cup {dst} |-> IF f = dst THEN fs[src] ELSE fs[f]]

\* 0 <= page_idx < len(doc), with page_idx = page_number - 1
InDocument(page_number) == 0 <= page_number - 1 /\ page_number - 1 < NumPages

\* doc[page_num] raises IndexError for an index at or above the page count
\* (a negative index counts from the end).
PageRaises(page_number) == page_number - 1 >= NumPages

\* The 1-based page doc[page_number - 1] loads.
LoadedPage(page_number) == ((page_number - 1) % NumPages) + 1

\* A spot lies in a region's box.
Covers(r, s) ==
    /\ s.page = r.page_number
    /\ r.bbox.x0 <= s.x /\ s.x <= r.bbox.x1
    /\ r.bbox.y0 <= s.y /\ s.y <= r.bbox.y1

\* The elements of a sequence.
Range(seq) == {seq[i] : i \in 1 .. Len(seq)}

\* Mutant of ApplyRedactions: the page is rebuilt from what lies outside
\* the annotations, as if nothing had been redacted there before.
ApplyRedactions_Resets(content, annots, images) ==
    [content EXCEPT
       !.spots = [s \in Spots |->
                    IF \E r \in Range(annots) : Covers(r, s)
                    THEN IF s.kind = "image" /\ images = "PDF_REDACT_IMAGE_NONE"
                            /\ content.spots[s] # "removed"
                         THEN "covered"
                         ELSE "removed"
                    ELSE "intact"]]

\* page.apply_redactions(images=...) on every page, for the redaction
\* annotations added before: text under an annotation is removed from the
\* page, image data is removed only if images says so
\* (PDF_REDACT_IMAGE_NONE leaves the image in the file), and the fill is
\* drawn over the box.
ApplyRedactions(content, annots, images) ==
    [content EXCEPT
       !.spots = [s \in Spots |->
                    IF \E r \in Range(annots) : Covers(r, s)
                    THEN IF s.kind = "image" /\ images = "PDF_REDACT_IMAGE_NONE"
                            /\ content.spots[s] # "removed"
                         THEN "covered"
                         ELSE "removed"
                    ELSE content.spots[s]]]

\* ------------------------------------------------------------- Highlighter

\* Mutant of NothingToRender: an empty list does not stop the rendering.
NothingToRender_IgnoresItems(path, items) == path = NoPath

\* if not pdf_path or not items
NothingToRender(path, items) == path = NoPath \/ items = <<>>

\* The preview of a document: a highlight annotation for each item (the
\* items of the graph's runs are all on pages of the document).
Highlighted(content, items) == [content EXCEPT !.highlights = Range(items)]

\* Preview.  Opening the document or saving the preview can raise; nothing
\* in the node catches it and the invocation of the graph ends there.
run_highlighter ==
    /\ pc = "Highlighter"
    /\ \/ /\ NothingToRender(pdf_path, sensitive_data)
          /\ UNCHANGED <<preview_pdf_path, files>>
          /\ pc' = "HumanInLoop"
       \/ /\ ~NothingToRender(pdf_path, sensitive_data)
          /\ preview_pdf_path' = PreviewPath(pdf_path)
          /\ files' = Save(files, PreviewPath(pdf_path),
                           Highlighted(files[pdf_path], sensitive_data))
          /\ pc' = "HumanInLoop"
       \/ /\ ~NothingToRender(pdf_path, sensitive_data)
          /\ UNCHANGED <<preview_pdf_path, files>>
          /\ pc' = Aborted
    /\ hist' = [hist EXCEPT !.last = "Highlighter"]
    /\ UNCHANGED <<user_prompt, pdf_path, sensitive_data_description,
                   search_query, page_level_pdf_elements,
                   word_level_pdf_elements, sensitive_data, evaluator_cycles,
                   max_evaluator_cycles, final_pdf_path, next_node,
                   user_approval, manual_rectangles, session, ops>>

\* -------------------------------------------------------------- Human Gate

\* The node the gate routes to for the decision it read (already stripped).
HitlTarget(approval) ==
    IF approval = "Yes" THEN "Redactor"
    ELSE IF approval = "No" THEN "Orchestrator"
    ELSE "HumanInLoop"

\* Mutant of HitlApproval: the Reject branch leaves the decision in place.
HitlApproval_KeepsReject(approval, current) ==
    IF approval = "Yes" THEN NoKey ELSE current

\* state.pop("user_approval", None) on Approve and on Reject.
HitlApproval(approval, current) ==
    IF approval \in {"Yes", "No"} THEN NoKey ELSE current

\* Mutant of route_from_hitl: an unrecognized tag falls through to Redactor.
route_from_hitl_DefaultRedactor(nxt) ==
    IF StrOrEmpty(nxt) = "Orchestrator" THEN "Orchestrator" ELSE "Redactor"

route_from_hitl(nxt) ==
    IF StrOrEmpty(nxt) = "Redactor" THEN "Redactor"
    ELSE IF StrOrEmpty(nxt) = "Orchestrator" THEN "Orchestrator"
    ELSE "HumanInLoop"

\* Human Gate.
run_hitl ==
    /\ pc = "HumanInLoop"
    /\ LET approval == StrOrEmpty(user_approval)
       IN  /\ next_node' = HitlTarget(approval)
           /\ user_approval' = HitlApproval(approval, user_approval)
           /\ hist' = [hist EXCEPT
                         !.last = "HumanInLoop",
                         !.gateRead = approval,
                         !.applied = IF approval \in {"Yes", "No"}
                                     THEN @ + 1 ELSE @,
                         !.rejected = @ \/ approval = "No"]
    /\ pc' = route_from_hitl(next_node')
    /\ UNCHANGED <<user_prompt, pdf_path, sensitive_data_description,
                   search_query, page_level_pdf_elements,
                   word_level_pdf_elements, sensitive_data, evaluator_cycles,
                   max_evaluator_cycles, preview_pdf_path, final_pdf_path,
                   appvars>>

\* The caller, while the pipeline is suspended at the gate: it puts a
\* decision on the record (app.py:629, app.py:731) and may replace the
\* request with one that carries its hints (app.py:308).
SupplyDecision ==
    /\ pc = "HumanInLoop"
    /\ hist.supplied < MaxDecisions
    /\ \E decision \in {"Yes", "No"}, prompt \in Prompts \cup {user_prompt} :
          /\ user_approval' = decision
          /\ user_prompt' = prompt
    /\ hist' = [hist EXCEPT !.last = "caller", !.supplied = @ + 1]
    /\ UNCHANGED <<pc, pdf_path, sensitive_data_description, search_query,
                   page_level_pdf_elements, word_level_pdf_elements,
                   sensitive_data, evaluator_cycles, max_evaluator_cycles,
                   preview_pdf_path, final_pdf_path, next_node,
                   appvars>>

\* ---------------------------------------------------------------- Redactor

\* Mutant of NothingToRedact: an empty list does not stop the redaction.
NothingToRedact_IgnoresItems(path, items) == path = NoPath

\* if not pdf_path or not items
NothingToRedact(path, items) == path = NoPath \/ items = <<>>

\* The region of the content value v of a run of the graph.
RegionOfValue(v) == IF v = 1 THEN RegionA ELSE RegionC

\* The document after _apply_redactions_to_pdf with the items' regions.
Redacted(content, items) ==
    ApplyRedactions(content,
                    [i \in 1 .. Len(items) |-> RegionOfValue(items[i])],
                    "PDF_REDACT_IMAGE_NONE")

\* Redaction.  _apply_redactions_to_pdf can raise (a page that is not in
\* the document, a failed save); run_redactor does not catch it.
run_redactor ==
    /\ pc = "Redactor"
    /\ \/ /\ NothingToRedact(pdf_path, sensitive_data)
          /\ UNCHANGED <<final_pdf_path, files>>
          /\ pc' = END
       \/ /\ ~NothingToRedact(pdf_path, sensitive_data)
          /\ final_pdf_path' = AiOutputPath(pdf_path)
          /\ files' = Save(files, AiOutputPath(pdf_path),
                           Redacted(files[pdf_path], sensitive_data))
          /\ pc' = END
       \/ /\ ~NothingToRedact(pdf_path, sensitive_data)
          /\ UNCHANGED <<final_pdf_path, files>>
          /\ pc' = Aborted
    /\ hist' = [hist EXCEPT !.last = "Redactor"]
    /\ UNCHANGED <<user_prompt, pdf_path, sensitive_data_description,
                   search_query, page_level_pdf_elements,
                   word_level_pdf_elements, sensitive_data, evaluator_cycles,
                   max_evaluator_cycles, preview_pdf_path, next_node,
                   user_approval, manual_rectangles, session, ops>>

\* ------------------------------------------------------ Redaction Composer

\* What saving (or applying) does: it works, or it raises.
IoResults == {"ok", "fail"}

\* The annotation add_redact_annot puts on page doc[page_number - 1].
Annot(item) == [item EXCEPT !.page_number = LoadedPage(item.page_number)]

\* Mutant of AiAnnots: the loop starts at the second item.
AiAnnots_SkipsFirst(items) ==
    [i \in 1 .. (Len(items) - 1) |-> Annot(items[i + 1])]

\* for item in sensitive_items: ... page.add_redact_annot(rect, ...)
AiAnnots(items) == [i \in 1 .. Len(items) |-> Annot(items[i])]

\* _apply_redactions_to_pdf(pdf_path, sensitive_items): opening the
\* document, a page that is not in it and the save can raise, and nothing
\* here catches it; otherwise every item is annotated, the annotations are
\* applied and the document is saved at the AI-redacted path.
apply_redactions_to_pdf(fs, path, items, io) ==
    IF \/ ~Exists(fs, path)
       \/ \E i \in 1 .. Len(items) : PageRaises(items[i].page_number)
       \/ io = "fail"
    THEN [raised |-> TRUE, files |-> fs, path |-> NoPath, regions |-> <<>>]
    ELSE [raised |-> FALSE,
          files |-> Save(fs, AiOutputPath(path),
                         ApplyRedactions(fs[path], AiAnnots(items),
                                         "PDF_REDACT_IMAGE_NONE")),
          path |-> AiOutputPath(path),
          regions |-> AiAnnots(items)]

\* if 0 <= page_idx < len(doc): ... else: print("Invalid page number")
ManualAnnots(rects) == SelectSeq(rects, LAMBDA r : InDocument(r.page_number))

\* apply_manual_redactions(pdf_path, manual_rectangles): with no rectangle
\* it returns pdf_path; opening the document can raise; rectangles on a
\* page outside the document are skipped; a failure while applying or
\* saving is caught and pdf_path is returned; otherwise the document is
\* saved at the manually-redacted path, which is returned.
apply_manual_redactions(fs, path, rects, io) ==
    IF rects = <<>>
    THEN [raised |-> FALSE, files |-> fs, path |-> path, saved |-> FALSE,
          regions |-> <<>>]
    ELSE IF ~Exists(fs, path)
    THEN [raised |-> TRUE, files |-> fs, path |-> NoPath, saved |-> FALSE,
          regions |-> <<>>]
    ELSE IF io = "fail"
    THEN [raised |-> FALSE, files |-> fs, path |-> path, saved |-> FALSE,
          regions |-> <<>>]
    ELSE [raised |-> FALSE,
          files |-> Save(fs, ManualOutputPath(path),
                         ApplyRedactions(fs[path], ManualAnnots(rects),
                                         "PDF_REDACT_IMAGE_NONE")),
          path |-> ManualOutputPath(path), saved |-> TRUE,
          regions |-> ManualAnnots(rects)]

\* combine_ai_and_manual_redactions(ai_redacted_path, manual_rectangles)
combine_ai_and_manual_redactions(fs, ai_path, rects, io) ==
    IF rects = <<>> \/ ~Exists(fs, ai_path)
    THEN [files |-> fs, path |-> ai_path, saved |-> FALSE, temp |-> NoPath,
          moved |-> NoPath, regions |-> <<>>]
    ELSE LET m == apply_manual_redactions(fs, ai_path, rects, io)
             combined_path == CombinedOutputPath(ai_path)
         IN  IF Exists(m.files, m.path) /\ m.path # combined_path
             THEN [files |-> Rename(m.files, m.path, combined_path),
                   path |-> combined_path, saved |-> m.saved, temp |-> m.path,
                   moved |-> m.path, regions |-> m.regions]
             ELSE [files |-> m.files, path |-> m.path, saved |-> m.saved,
                   temp |-> m.path, moved |-> NoPath, regions |-> m.regions]

\* A region list asks for a page the document does not have.
AsksPageOutside(regions) ==
    \E i \in 1 .. Len(regions) : ~InDocument(regions[i].page_number)

\* ------------------------------------------------------ Coordinate Mapper

\* A word element as _extract_word_elements builds it: element_id counts
\* from 1 on every page.
Word(element_id, page_number, content, x0, y0, x1, y1) ==
    [element_id |-> element_id, page_number |-> page_number,
     content |-> content,
     bbox |-> [x0 |-> x0, y0 |-> y0, x1 |-> x1, y1 |-> y1]]

\* The cached word-level elements of the document: a labelled value on
\* page 1 and a two-word value on page 2.
WordElements ==
    <<Word(1, 1, "SEVIS", 50, 100, 90, 112),
      Word(2, 1, "ID:", 95, 100, 115, 112),
      Word(3, 1, "N0004705512", 120, 100, 200, 112),
      Word(1, 2, "John", 50, 300, 80, 312),
      Word(2, 2, "Smith", 85, 302, 125, 314)>>

\* words_by_page.get(page_num, [])
WordsOnPage(words, page_number) ==
    SelectSeq(words, LAMBDA w : w.page_number = page_number)

\* [w for w in page_words if w["element_id"] in element_ids]
MatchingWords(words, item) ==
    SelectSeq(WordsOnPage(words, item.page_number),
              LAMBDA w : w.element_id \in item.element_ids)

MinOf(S) == CHOOSE m \in S : \A n \in S : m <= n

MaxOf(S) == CHOOSE m \in S : \A n \in S : m >= n

\* Mutant of MergedBox: the box of the first matching word.
MergedBox_FirstWord(matching) == matching[1].bbox

\* The merged bounding box of the matching words: the box of a single
\* word, else min x0, min y0, max x1, max y1 over their boxes.
MergedBox(matching) ==
    IF Len(matching) = 1 THEN matching[1].bbox
    ELSE [x0 |-> MinOf({matching[i].bbox.x0 : i \in 1 .. Len(matching)}),
          y0 |-> MinOf({matching[i].bbox.y0 : i \in 1 .. Len(matching)}),
          x1 |-> MaxOf({matching[i].bbox.x1 : i \in 1 .. Len(matching)}),
          y1 |-> MaxOf({matching[i].bbox.y1 : i \in 1 .. Len(matching)})]

\* _second_llm_coordinate_mapping, from the provider's answer on: an item
\* without element ids or without a matching word on its page is skipped,
\* every other item becomes a region with the merged box of its matching
\* words; a provider that raises gives no region.  The classified values
\* go into the payload only: which ids an item names is the provider's
\* choice.
second_llm_coordinate_mapping(words, answer) ==
    IF answer.raised THEN <<>>
    ELSE LET kept == SelectSeq(answer.items,
                               LAMBDA item : /\ item.element_ids # {}
                                             /\ MatchingWords(words, item) # <<>>)
         IN  [i \in 1 .. Len(kept) |->
                [page_number |-> kept[i].page_number,
                 content |-> kept[i].content,
                 bbox |-> MergedBox(MatchingWords(words, kept[i]))]]

\* ------------------------------------------- the application (src/app.py)

\* The lists of Sensitive Regions a workflow run can leave on the record.
DetectedLists == {<<>>, <<RegionA>>}

\* The rectangles a user draws on the canvas (on a page of the document),
\* and the regions a user's edit of an item's page and coordinates gives.
DrawnRects == {RegionB}

AiEditedRegions == {RegionC, RegionOut}

ManualEditedRegions == {RegionOut}

\* The fields of the record that only a run of the graph changes.
graphvars == <<sensitive_data_description, search_query,
               page_level_pdf_elements, word_level_pdf_elements,
               evaluator_cycles, max_evaluator_cycles, hist>>

\* The duplicate tolerance of the canvas handler.
Tolerance == 5

Abs(n) == IF n < 0 THEN -n ELSE n

\* Mutant of IsDuplicate: the comparison with the tolerance is not strict.
IsDuplicate_Inclusive(existing, manual_item) ==
    /\ existing.page_number = manual_item.page_number
    /\ Abs(existing.bbox.x0 - manual_item.bbox.x0) <= Tolerance
    /\ Abs(existing.bbox.y0 - manual_item.bbox.y0) <= Tolerance

\* existing["page_number"] == manual_item["page_number"] and
\* abs(existing x0 - new x0) < 5 and abs(existing y0 - new y0) < 5
IsDuplicate(existing, manual_item) ==
    /\ existing.page_number = manual_item.page_number
    /\ Abs(existing.bbox.x0 - manual_item.bbox.x0) < Tolerance
    /\ Abs(existing.bbox.y0 - manual_item.bbox.y0) < Tolerance

\* The manual list after the canvas handler processed a drawn rectangle.
AddManualItem(rects, manual_item) ==
    IF \E i \in 1 .. Len(rects) : IsDuplicate(rects[i], manual_item)
    THEN rects
    ELSE Append(rects, manual_item)

\* del items[idx]
DeleteAt(items, idx) ==
    SubSeq(items, 1, idx - 1) \o SubSeq(items, idx + 1, Len(items))

\* The state after the upload handler saved the document (app.py:241-267).
InitApp ==
    /\ pc = "Orchestrator"
    /\ user_prompt = NoKey
    /\ pdf_path = OriginalPath
    /\ sensitive_data_description = <<>>
    /\ search_query = NoKey
    /\ page_level_pdf_elements = <<>>
    /\ word_level_pdf_elements = <<>>
    /\ sensitive_data = <<>>
    /\ evaluator_cycles = NoCount
    /\ max_evaluator_cycles = NoCount
    /\ preview_pdf_path = NoPath
    /\ final_pdf_path = NoPath
    /\ next_node = NoKey
    /\ user_approval = NoKey
    /\ hist = InitHist(NoKey)
    /\ manual_rectangles = <<>>
    /\ files = OriginalFiles
    /\ session = InitSession
    /\ ops = NoOps

\* Run Detection: the record is handed to the graph, which runs up to the
\* interrupt before the Human Gate (run_agentic_workflow).  The run leaves
\* a list of Sensitive Regions and, if that list is not empty, a preview;
\* or it raises and the record is returned as it was.
RunDetection ==
    /\ session.runs < MaxRuns
    /\ user_prompt' = "p "
    /\ \/ /\ \E detected \in DetectedLists :
                /\ sensitive_data' = detected
                /\ IF NothingToRender(pdf_path, detected) \/ ~Exists(files, pdf_path)
                   THEN UNCHANGED <<preview_pdf_path, files>>
                   ELSE /\ preview_pdf_path' = PreviewPath(pdf_path)
                        /\ files' = Save(files, PreviewPath(pdf_path),
                                         [files[pdf_path] EXCEPT !.highlights =
                                            {r \in Range(detected) :
                                               InDocument(r.page_number)}])
          /\ pc' = "HumanInLoop"
          /\ next_node' = "HumanInLoop"
       \/ UNCHANGED <<sensitive_data, preview_pdf_path, files, pc, next_node>>
    /\ session' = [session EXCEPT
                     !.runs = @ + 1,
                     !.preview_approved = FALSE,
                     !.show_approval_buttons = sensitive_data' # <<>>,
                     !.original_ai_detections =
                         IF sensitive_data' # <<>> THEN sensitive_data' ELSE @,
                     !.aliased = FALSE,
                     !.produced = sensitive_data']
    /\ ops' = [NoOps EXCEPT !.last = "RunDetection"]
    /\ UNCHANGED <<pdf_path, final_pdf_path, user_approval, manual_rectangles>>
    /\ UNCHANGED graphvars

\* The canvas handler, for a rectangle the user has drawn (app.py:429-456).
CanvasHandler(rect) ==
    /\ manual_rectangles' = AddManualItem(manual_rectangles, rect)
    /\ ops' = [NoOps EXCEPT !.last = "DrawRectangle", !.drawn = <<rect>>]
    /\ UNCHANGED <<pc, user_prompt, pdf_path, sensitive_data, preview_pdf_path,
                   final_pdf_path, next_node, user_approval, files, session>>
    /\ UNCHANGED graphvars

DrawRectangle ==
    /\ Len(manual_rectangles) < MaxManual
    /\ \E rect \in DrawnRects : CanvasHandler(rect)

\* The rectangles drawn when the canvas handler is exercised on its own:
\* around RegionA, corners 2 and 1 away, 4 and 4 away, exactly 5 away in
\* x and exactly 5 away in y; the same corner on page 1, and one 2 and 1
\* away from it; RegionC, and one 4 away from it in y.
CanvasRects ==
    {RegionA, RegionB, RegionC, Rect(2, 96, 204, 126, 214),
     Rect(2, 105, 200, 135, 210), Rect(2, 100, 205, 130, 215),
     Rect(1, 100, 200, 130, 210), Rect(1, 102, 201, 132, 211),
     Rect(2, 140, 196, 170, 206)}

DrawOnCanvas ==
    /\ Len(manual_rectangles) < MaxManual
    /\ \E rect \in CanvasRects : CanvasHandler(rect)

\* Reset Drawings (app.py:487-496).
ResetDrawings ==
    /\ manual_rectangles' = <<>>
    /\ IF session.original_ai_detections # <<>>
       THEN /\ sensitive_data' = session.original_ai_detections
            /\ session' = [session EXCEPT !.aliased = TRUE]
       ELSE UNCHANGED <<sensitive_data, session>>
    /\ ops' = [NoOps EXCEPT !.last = "ResetDrawings"]
    /\ UNCHANGED <<pc, user_prompt, pdf_path, preview_pdf_path, final_pdf_path,
                   next_node, user_approval, files>>
    /\ UNCHANGED graphvars

\* The session after an in-place change of the Sensitive Regions list: the
\* list kept for Reset Drawings is the same object once a reset has put it
\* on the record.
SessionAfterAiChange(items) ==
    IF session.aliased
    THEN [session EXCEPT !.original_ai_detections = items]
    ELSE session

\* Apply Changes on an AI item (app.py:525-537).
ApplyAiChanges ==
    /\ \E idx \in 1 .. Len(sensitive_data), region \in AiEditedRegions :
          /\ sensitive_data' = [sensitive_data EXCEPT ![idx] = region]
          /\ session' = SessionAfterAiChange(sensitive_data')
    /\ ops' = [NoOps EXCEPT !.last = "edit"]
    /\ UNCHANGED <<pc, user_prompt, pdf_path, preview_pdf_path, final_pdf_path,
                   next_node, user_approval, manual_rectangles, files>>
    /\ UNCHANGED graphvars

\* Delete Item on an AI item (app.py:539-543).
DeleteAiItem ==
    /\ \E idx \in 1 .. Len(sensitive_data) :
          /\ sensitive_data' = DeleteAt(sensitive_data, idx)
          /\ session' = SessionAfterAiChange(sensitive_data')
    /\ ops' = [NoOps EXCEPT !.last = "edit"]
    /\ UNCHANGED <<pc, user_prompt, pdf_path, preview_pdf_path, final_pdf_path,
                   next_node, user_approval, manual_rectangles, files>>
    /\ UNCHANGED graphvars

\* Apply Changes on a manual item (app.py:565-574).
ApplyManualChanges ==
    /\ \E idx \in 1 .. Len(manual_rectangles), region \in ManualEditedRegions :
          manual_rectangles' = [manual_rectangles EXCEPT ![idx] = region]
    /\ ops' = [NoOps EXCEPT !.last = "edit"]
    /\ UNCHANGED <<pc, user_prompt, pdf_path, sensitive_data, preview_pdf_path,
                   final_pdf_path, next_node, user_approval, files, session>>
    /\ UNCHANGED graphvars

\* Delete Item on a manual item (app.py:576-579).
DeleteManualItem ==
    /\ \E idx \in 1 .. Len(manual_rectangles) :
          manual_rectangles' = DeleteAt(manual_rectangles, idx)
    /\ ops' = [NoOps EXCEPT !.last = "edit"]
    /\ UNCHANGED <<pc, user_prompt, pdf_path, sensitive_data, preview_pdf_path,
                   final_pdf_path, next_node, user_approval, files, session>>
    /\ UNCHANGED graphvars

\* The Human Review section is shown (app.py:591).
ReviewShown == session.show_approval_buttons /\ ~session.preview_approved

\* Approve Preview (app.py:611-726): the decision "Yes" is put on the
\* record, then run_hitl and run_redactor are called on it, then the manual
\* rectangles, if any, are applied to what the record names as the final
\* artifact.  An exception is caught and shown.
ApprovePreview ==
    /\ ReviewShown
    /\ \E io_ai \in IoResults, io_manual \in IoResults :
          LET approval == StrOrEmpty("Yes")
              target == HitlTarget(approval)
              skipped == NothingToRedact(pdf_path, sensitive_data)
              ai == apply_redactions_to_pdf(files, pdf_path, sensitive_data, io_ai)
              ran == target = "Redactor" /\ ~skipped
              raised == ran /\ ai.raised
              saved == ran /\ ~ai.raised
              files_ai == IF saved THEN ai.files ELSE files
              ai_redacted_path ==
                  IF target # "Redactor" THEN NoPath
                  ELSE IF saved THEN ai.path ELSE final_pdf_path
              manual_count == Len(manual_rectangles)
              combines == ~raised /\ ai_redacted_path # NoPath /\ manual_count > 0
              c == combine_ai_and_manual_redactions(files_ai, ai_redacted_path,
                                                    manual_rectangles, io_manual)
          IN  /\ next_node' = target
              /\ user_approval' = HitlApproval(approval, "Yes")
              /\ files' = IF combines THEN c.files ELSE files_ai
              /\ final_pdf_path' =
                     IF raised THEN final_pdf_path
                     ELSE IF combines THEN c.path
                     ELSE ai_redacted_path
              /\ ops' = [NoOps EXCEPT
                           !.last = "ApprovePreview",
                           !.aiIn = IF saved THEN pdf_path ELSE NoPath,
                           !.aiOut = IF saved THEN ai.path ELSE NoPath,
                           !.aiRegions = IF saved THEN ai.regions ELSE <<>>,
                           !.aiBase = IF raised THEN NoPath ELSE ai_redacted_path,
                           !.manIn = IF combines /\ c.saved
                                     THEN ai_redacted_path ELSE NoPath,
                           !.manOut = IF combines /\ c.saved THEN c.temp ELSE NoPath,
                           !.manRegions = IF combines THEN c.regions ELSE <<>>,
                           !.manAsked = IF combines THEN manual_rectangles ELSE <<>>,
                           !.moved = IF combines THEN c.moved ELSE NoPath,
                           !.error =
                               \/ raised
                               \/ /\ combines
                                  /\ Exists(files_ai, ai_redacted_path)
                                  /\ \/ AsksPageOutside(manual_rectangles)
                                     \/ io_manual = "fail",
                           !.reported = raised \/ ai_redacted_path = NoPath]
    /\ session' = [session EXCEPT !.preview_approved = TRUE,
                                  !.show_approval_buttons = FALSE]
    /\ UNCHANGED <<pc, user_prompt, pdf_path, sensitive_data, preview_pdf_path,
                   manual_rectangles>>
    /\ UNCHANGED graphvars

\* Reject Preview (app.py:729-733).
RejectPreview ==
    /\ ReviewShown
    /\ user_approval' = "No"
    /\ session' = [session EXCEPT !.show_approval_buttons = FALSE]
    /\ ops' = [NoOps EXCEPT !.last = "RejectPreview"]
    /\ UNCHANGED <<pc, user_prompt, pdf_path, sensitive_data, preview_pdf_path,
                   final_pdf_path, next_node, manual_rectangles, files>>
    /\ UNCHANGED graphvars

\* Redact Manual Only (app.py:735-753).
RedactManualOnly ==
    /\ ReviewShown
    /\ Len(manual_rectangles) > 0
    /\ pdf_path # NoPath
    /\ \E io_manual \in IoResults :
          LET m == apply_manual_redactions(files, pdf_path, manual_rectangles,
                                           io_manual)
          IN  /\ files' = m.files
              /\ final_pdf_path' = IF m.raised THEN final_pdf_path ELSE m.path
              /\ session' = IF m.raised THEN session
                            ELSE [session EXCEPT !.preview_approved = TRUE,
                                                 !.show_approval_buttons = FALSE]
              /\ ops' = [NoOps EXCEPT
                           !.last = "RedactManualOnly",
                           !.manIn = IF m.saved THEN pdf_path ELSE NoPath,
                           !.manOut = IF m.saved THEN m.path ELSE NoPath,
                           !.manRegions = m.regions,
                           !.manAsked = manual_rectangles,
                           !.error = \/ m.raised
                                     \/ AsksPageOutside(manual_rectangles)
                                     \/ io_manual = "fail",
                           !.reported = m.raised]
    /\ UNCHANGED <<pc, user_prompt, pdf_path, sensitive_data, preview_pdf_path,
                   next_node, user_approval, manual_rectangles>>
    /\ UNCHANGED graphvars

\* ------------------------------------------------------------ specification

Next ==
    \/ orchestrator_node
    \/ run_searcher
    \/ run_detector
    \/ run_evaluator
    \/ run_highlighter
    \/ run_hitl
    \/ SupplyDecision
    \/ run_redactor

Spec == Init /\ [][Next]_vars

\* The interactive session on one uploaded document.
NextApp ==
    \/ RunDetection
    \/ DrawRectangle
    \/ ResetDrawings
    \/ ApplyAiChanges
    \/ DeleteAiItem
    \/ ApplyManualChanges
    \/ DeleteManualItem
    \/ ApprovePreview
    \/ RejectPreview
    \/ RedactManualOnly

SpecApp == InitApp /\ [][NextApp]_vars

\* The canvas handler on its own: drawings, edits and deletions of manual
\* items.
NextCanvas ==
    \/ DrawOnCanvas
    \/ ApplyManualChanges
    \/ DeleteManualItem

SpecCanvas == InitApp /\ [][NextCanvas]_vars

\* The regions typed into the form of a manual item when the manual list
\* is exercised on its own: RegionA, the box 2 and 1 away from it, and a
\* box whose x0 lies right of its x1 (the number inputs accept any value).
CanvasEdits == {RegionA, RegionB, Rect(2, 130, 200, 100, 210)}

\* Apply Changes on a manual item (app.py:565-574), for those regions.
EditOnCanvas ==
    /\ \E idx \in 1 .. Len(manual_rectangles), region \in CanvasEdits :
          manual_rectangles' = [manual_rectangles EXCEPT ![idx] = region]
    /\ ops' = [NoOps EXCEPT !.last = "edit"]
    /\ UNCHANGED <<pc, user_prompt, pdf_path, sensitive_data, preview_pdf_path,
                   final_pdf_path, next_node, user_approval, files, session>>
    /\ UNCHANGED graphvars

\* The manual list under drawings (on either page), edits and deletions.
NextRegions ==
    \/ DrawOnCanvas
    \/ EditOnCanvas
    \/ DeleteManualItem

SpecRegions == InitApp /\ [][NextRegions]_vars

\* The two redactors on their own, composed through the files they save:
\* a list of Sensitive Regions and a list of manual rectangles are fixed,
\* and either redactor is run on the uploaded document or on an artifact
\* that MaxCommits redactions have not yet gone into.
ComposeAiLists == {<<RegionA>>, <<RegionC>>, <<RegionA, RegionC>>}

ComposeManualLists ==
    {<<RegionB>>, <<RegionC>>, <<Rect(1, 100, 200, 130, 210)>>,
     <<RegionB, RegionOut>>}

InitCompose ==
    /\ pc = "Orchestrator"
    /\ user_prompt = NoKey
    /\ pdf_path = OriginalPath
    /\ sensitive_data_description = <<>>
    /\ search_query = NoKey
    /\ page_level_pdf_elements = <<>>
    /\ word_level_pdf_elements = <<>>
    /\ sensitive_data \in ComposeAiLists
    /\ evaluator_cycles = NoCount
    /\ max_evaluator_cycles = NoCount
    /\ preview_pdf_path = NoPath
    /\ final_pdf_path = NoPath
    /\ next_node = NoKey
    /\ user_approval = NoKey
    /\ hist = InitHist(NoKey)
    /\ manual_rectangles \in ComposeManualLists
    /\ files = OriginalFiles
    /\ session = InitSession
    /\ ops = NoOps

\* The redactions that have gone into the file at path: each one appends
\* two tokens to the name.
Commits(path) == (Len(path.name) - 1) \div 2

CommitAi ==
    /\ \E path \in DOMAIN files, io \in IoResults :
          /\ Commits(path) < MaxCommits
          /\ LET r == apply_redactions_to_pdf(files, path, sensitive_data, io)
             IN  /\ files' = r.files
                 /\ ops' = [NoOps EXCEPT !.last = "CommitAi",
                                         !.error = r.raised,
                                         !.reported = r.raised]
    /\ UNCHANGED <<pc, user_prompt, pdf_path, sensitive_data, preview_pdf_path,
                   final_pdf_path, next_node, user_approval, manual_rectangles,
                   session>>
    /\ UNCHANGED graphvars

CommitManual ==
    /\ \E path \in DOMAIN files, io \in IoResults :
          /\ Commits(path) < MaxCommits
          /\ LET m == apply_manual_redactions(files, path, manual_rectangles, io)
             IN  /\ files' = m.files
                 /\ ops' = [NoOps EXCEPT !.last = "CommitManual",
                                         !.error = ~m.saved,
                                         !.reported = m.raised]
    /\ UNCHANGED <<pc, user_prompt, pdf_path, sensitive_data, preview_pdf_path,
                   final_pdf_path, next_node, user_approval, manual_rectangles,
                   session>>
    /\ UNCHANGED graphvars

NextCompose ==
    \/ CommitAi
    \/ CommitManual

SpecCompose == InitCompose /\ [][NextCompose]_vars

\* The Coordinate Mapper on its own, in one execution of Detection on the
\* cached word elements, after which the pipeline is at Evaluation.  The
\* provider answers with up to MaxMapped items; an item names a page (page
\* 3 has no words), the value classified on that page and any set of
\* element ids.
MappedContent(page_number) ==
    IF page_number = 1 THEN "N0004705512" ELSE "John Smith"

MapperItems ==
    {[page_number |-> pg, content |-> MappedContent(pg), element_ids |-> ids] :
        pg \in 1 .. 3, ids \in SUBSET (1 .. 3)}

RECURSIVE SeqsUpTo(_, _)
SeqsUpTo(S, n) ==
    IF n = 0 THEN {<<>>}
    ELSE LET shorter == SeqsUpTo(S, n - 1)
         IN  shorter \cup {Append(q, x) : q \in shorter, x \in S}

InitMapper ==
    /\ pc = "Detector"
    /\ user_prompt = NoKey
    /\ pdf_path = OriginalPath
    /\ sensitive_data_description = <<>>
    /\ search_query = NoKey
    /\ page_level_pdf_elements = <<>>
    /\ word_level_pdf_elements = WordElements
    /\ sensitive_data = <<>>
    /\ evaluator_cycles = NoCount
    /\ max_evaluator_cycles = NoCount
    /\ preview_pdf_path = NoPath
    /\ final_pdf_path = NoPath
    /\ next_node = NoKey
    /\ user_approval = NoKey
    /\ hist = InitHist(NoKey)
    /\ manual_rectangles = <<>>
    /\ files = OriginalFiles
    /\ session = InitSession
    /\ ops = NoOps

MapCoordinates ==
    /\ pc = "Detector"
    /\ pc' = "Evaluator"
    /\ \E raised \in BOOLEAN, items \in SeqsUpTo(MapperItems, MaxMapped) :
          /\ raised => items = <<>>
          /\ sensitive_data' =
                 second_llm_coordinate_mapping(word_level_pdf_elements,
                                               MapperAnswer(raised, items))
          /\ ops' = [NoOps EXCEPT !.last = "Mapper",
                                  !.answer = MapperAnswer(raised, items)]
    /\ UNCHANGED <<user_prompt, pdf_path, preview_pdf_path, final_pdf_path,
                   next_node, user_approval, manual_rectangles, files, session>>
    /\ UNCHANGED graphvars

NextMapper == MapCoordinates

SpecMapper == InitMapper /\ [][NextMapper]_vars

\* ------------------------------------------------- Coordinate Normalizer

\* A number as an exact fraction.  A zero denominator stands for the
\* ZeroDivisionError a division by zero raises.
Frac(num, den) == [num |-> num, den |-> den]

\* float(n)
Whole(n) == Frac(n, 1)

\* a / b
Quotient(a, b) == Frac(a, b)

\* a * k
Times(a, k) == Frac(a.num * k.num, a.den * k.den)

\* Two fractions are the same number.
SameNumber(a, b) ==
    a.den # 0 /\ b.den # 0 /\ a.num * b.den = b.num * a.den

Box(x0, y0, x1, y1) == [x0 |-> x0, y0 |-> y0, x1 |-> x1, y1 |-> y1]

SameBox(a, b) ==
    /\ SameNumber(a.x0, b.x0) /\ SameNumber(a.y0, b.y0)
    /\ SameNumber(a.x1, b.x1) /\ SameNumber(a.y1, b.y1)

\* Computing the box divided by zero.
DividedByZero(box) ==
    box.x0.den = 0 \/ box.y0.den = 0 \/ box.x1.den = 0 \/ box.y1.den = 0

ZeroBox == Box(Whole(0), Whole(0), Whole(0), Whole(0))

\* The x and the y values of a polygon x1, y1, x2, y2, ...
Xs(polygon) == {polygon[i] : i \in {j \in 1 .. Len(polygon) : j % 2 = 1}}

Ys(polygon) == {polygon[i] : i \in {j \in 1 .. Len(polygon) : j % 2 = 0}}

\* _polygon_to_bbox: the min/max box of a polygon, in the polygon's units.
polygon_to_bbox(polygon) ==
    IF Len(polygon) < 4 THEN ZeroBox
    ELSE Box(Whole(MinOf(Xs(polygon))), Whole(MinOf(Ys(polygon))),
             Whole(MaxOf(Xs(polygon))), Whole(MaxOf(Ys(polygon))))

\* _extract_paragraph_bbox
extract_paragraph_bbox(polygon) ==
    IF polygon # <<>> THEN polygon_to_bbox(polygon) ELSE ZeroBox

\* (unit or "").lower(), on the units of Units.
Lower(unit) ==
    CASE unit = "Inch" -> "inch"
      [] unit = "pixelPerInch" -> "pixelperinch"
      [] OTHER -> unit

PixelUnits == {"pixel", "pixelperinch", "pixelperinch2", "pixel/unknown"}

CentimeterUnits == {"cm", "centimeter"}

PointsPerInch == 72

\* 72.0 / 2.54
PointsPerCentimeter == Frac(7200, 254)

\* The box with its x values multiplied by sx and its y values by sy.
Scaled(box, sx, sy) ==
    Box(Times(box.x0, sx), Times(box.y0, sy),
        Times(box.x1, sx), Times(box.y1, sy))

\* _polygon_to_bbox_points: the min/max box of a polygon in page points.
polygon_to_bbox_points(polygon, unit, di_w, di_h, pdf_pt_w, pdf_pt_h) ==
    LET xs == IF polygon # <<>> THEN Xs(polygon) ELSE {0}
        ys == IF polygon # <<>> THEN Ys(polygon) ELSE {0}
        box == Box(Whole(MinOf(xs)), Whole(MinOf(ys)),
                   Whole(MaxOf(xs)), Whole(MaxOf(ys)))
        u == Lower(unit)
    IN  IF u = "inch"
        THEN Scaled(box, Whole(PointsPerInch), Whole(PointsPerInch))
        ELSE IF u \in PixelUnits \/ (di_w # 0 /\ di_h # 0)
        THEN LET sx == IF di_w # 0 THEN Quotient(pdf_pt_w, di_w) ELSE Whole(1)
                 sy == IF di_h # 0 THEN Quotient(pdf_pt_h, di_h) ELSE Whole(1)
             IN  Scaled(box, sx, sy)
        ELSE IF u \in CentimeterUnits
        THEN Scaled(box, PointsPerCentimeter, PointsPerCentimeter)
        ELSE box

\* _run_page_level_ocr on a page with one text element: a paragraph when
\* the analysis gives paragraphs, else a line.
run_page_level_ocr(page) ==
    << [element_id |-> 1, page_number |-> 1, content |-> "John",
        bbox |-> IF page.as_paragraph
                 THEN extract_paragraph_bbox(page.polygon)
                 ELSE polygon_to_bbox(page.polygon),
        type |-> IF page.as_paragraph THEN "paragraph" ELSE "line"] >>

\* _extract_word_elements on a page with one word.
extract_word_elements(page) ==
    << [element_id |-> 1, page_number |-> 1, content |-> "John",
        bbox |-> polygon_to_bbox_points(page.polygon, page.unit, page.width,
                                        page.height, page.pdf_pt_w,
                                        page.pdf_pt_h)] >>

\* The units a page is analysed in (the empty string: no unit given).
Units == {"", "inch", "Inch", "pixel", "pixelPerInch", "cm", "centimeter",
          "point"}

\* The polygons of an analysed element: none, the four corners of an
\* upright rectangle, or the four corners of a diamond.
Polygons ==
    {<<>>} \cup
    {<<x0, y0, x1, y0, x1, y1, x0, y1>> :
        x0 \in 1 .. MaxCoord, y0 \in 1 .. MaxCoord,
        x1 \in 2 .. MaxCoord, y1 \in 2 .. MaxCoord} \cup
    {<<1, 2, 2, 1, MaxCoord, 2, 2, MaxCoord>>}

AnalysedPages ==
    {AnalysedPage(unit, width, height, polygon, as_paragraph, pdf_pt_w,
                  pdf_pt_h) :
        unit \in Units, width \in 0 .. MaxDim, height \in 0 .. MaxDim,
        polygon \in Polygons, as_paragraph \in BOOLEAN,
        pdf_pt_w \in 1 .. MaxDim, pdf_pt_h \in 1 .. MaxDim}

\* One execution of the dual extraction on a one-page document.
InitExtract ==
    /\ pc = "Detector"
    /\ user_prompt = NoKey
    /\ pdf_path = OriginalPath
    /\ sensitive_data_description = <<>>
    /\ search_query = NoKey
    /\ page_level_pdf_elements = <<>>
    /\ word_level_pdf_elements = <<>>
    /\ sensitive_data = <<>>
    /\ evaluator_cycles = NoCount
    /\ max_evaluator_cycles = NoCount
    /\ preview_pdf_path = NoPath
    /\ final_pdf_path = NoPath
    /\ next_node = NoKey
    /\ user_approval = NoKey
    /\ hist = InitHist(NoKey)
    /\ manual_rectangles = <<>>
    /\ files = OriginalFiles
    /\ session = InitSession
    /\ \E page \in AnalysedPages : ops = [NoOps EXCEPT !.analysed = page]

run_dual_ocr_parallel ==
    /\ ops.last = "none"
    /\ page_level_pdf_elements' = run_page_level_ocr(ops.analysed)
    /\ word_level_pdf_elements' = extract_word_elements(ops.analysed)
    /\ ops' = [ops EXCEPT !.last = "Extract"]
    /\ UNCHANGED <<pc, user_prompt, pdf_path, sensitive_data_description,
                   search_query, sensitive_data, evaluator_cycles,
                   max_evaluator_cycles, preview_pdf_path, final_pdf_path,
                   next_node, user_approval, hist, manual_rectangles, files,
                   session>>

NextExtract == run_dual_ocr_parallel

SpecExtract == InitExtract /\ [][NextExtract]_vars

\* ------------------------------------------- the dual extraction's tasks

Futures == {"page", "word"}

\* Mutant of Collected: every result is put into the page-level list.
Collected_PageSlot(pool, future, result) ==
    [pool EXCEPT !.page_elements = result, !.yielded = @ \cup {future}]

\* The body of the as_completed loop: the result of the page future goes
\* into page_elements, that of the word future into word_elements.
Collected(pool, future, result) ==
    IF future = "page"
    THEN [pool EXCEPT !.page_elements = result, !.yielded = @ \cup {future}]
    ELSE [pool EXCEPT !.word_elements = result, !.yielded = @ \cup {future}]

\* What a future's task returned.
ResultOf(pool, future) ==
    IF future = "page" THEN pool.pageResult ELSE pool.wordResult

PoolUnchanged ==
    UNCHANGED <<pc, user_prompt, pdf_path, sensitive_data_description,
                search_query, page_level_pdf_elements,
                word_level_pdf_elements, sensitive_data, evaluator_cycles,
                max_evaluator_cycles, preview_pdf_path, final_pdf_path,
                next_node, user_approval, hist, manual_rectangles, files,
                session>>

\* _first_detection calls _run_dual_ocr_parallel: the client is created
\* (a missing endpoint or key raises, and _first_detection returns the
\* record as it is) and both tasks are submitted to the two workers.
SubmitBoth ==
    /\ pc = "Detector"
    /\ ops.pool.at = "idle"
    /\ \E configured \in BOOLEAN :
          IF configured
          THEN /\ ops' = [ops EXCEPT !.pool.at = "collect",
                                      !.pool.running = Futures]
               /\ PoolUnchanged
          ELSE /\ ops' = [ops EXCEPT !.pool.at = "done"]
               /\ pc' = "Evaluator"
               /\ UNCHANGED <<user_prompt, pdf_path,
                              sensitive_data_description, search_query,
                              page_level_pdf_elements,
                              word_level_pdf_elements, sensitive_data,
                              evaluator_cycles, max_evaluator_cycles,
                              preview_pdf_path, final_pdf_path, next_node,
                              user_approval, hist, manual_rectangles, files,
                              session>>

\* The task of the page-level pass finishes: _run_page_level_ocr returns
\* its elements, [] after a failure.
PageOcrFinishes ==
    /\ "page" \in ops.pool.running
    /\ \E page \in PageOcrResults :
          ops' = [ops EXCEPT !.pool.running = @ \ {"page"},
                             !.pool.order = Append(@, "page"),
                             !.pool.pageResult = page]
    /\ PoolUnchanged

\* The task of the word-level pass finishes.
WordOcrFinishes ==
    /\ "word" \in ops.pool.running
    /\ \E word \in WordOcrResults :
          ops' = [ops EXCEPT !.pool.running = @ \ {"word"},
                             !.pool.order = Append(@, "word"),
                             !.pool.wordResult = word]
    /\ PoolUnchanged

\* One round of the as_completed loop: a finished future not handled yet
\* is yielded and its result stored.
AsCompleted ==
    /\ ops.pool.at = "collect"
    /\ \E future \in Futures \ (ops.pool.running \cup ops.pool.yielded) :
          ops' = [ops EXCEPT
                    !.pool = Collected(ops.pool, future,
                                       ResultOf(ops.pool, future))]
    /\ PoolUnchanged

\* The loop ends when both futures were yielded.
LoopEnds ==
    /\ ops.pool.at = "collect"
    /\ ops.pool.yielded = Futures
    /\ ops' = [ops EXCEPT !.pool.at = "exit"]
    /\ PoolUnchanged

\* Leaving the with block shuts the executor down, which waits for the
\* tasks; then the two lists are returned.
ExecutorExit ==
    /\ ops.pool.at = "exit"
    /\ ops.pool.running = {}
    /\ ops' = [ops EXCEPT !.pool.at = "returned"]
    /\ PoolUnchanged

\* The rest of _first_detection, on the two lists returned.
first_detection ==
    /\ ops.pool.at = "returned"
    /\ pc' = "Evaluator"
    /\ ops' = [ops EXCEPT !.pool.at = "done"]
    /\ IF DualOcrFailed(ops.pool.page_elements, ops.pool.word_elements)
       THEN UNCHANGED <<page_level_pdf_elements, word_level_pdf_elements,
                        sensitive_data>>
       ELSE /\ page_level_pdf_elements' = ops.pool.page_elements
            /\ word_level_pdf_elements' = ops.pool.word_elements
            /\ \E answer \in ClassifierAnswers, kept \in MapperKept :
                  sensitive_data' =
                      DualLlm(first_llm_content_analysis(answer), kept)
    /\ UNCHANGED <<user_prompt, pdf_path, sensitive_data_description,
                   search_query, evaluator_cycles, max_evaluator_cycles,
                   preview_pdf_path, final_pdf_path, next_node,
                   user_approval, hist, manual_rectangles, files, session>>

\* A first Detection on a record with a document and an empty cache; the
\* record may hold Sensitive Regions from before.
InitPool ==
    /\ pc = "Detector"
    /\ user_prompt = NoKey
    /\ pdf_path = OriginalPath
    /\ sensitive_data_description = <<>>
    /\ search_query = NoKey
    /\ page_level_pdf_elements = <<>>
    /\ word_level_pdf_elements = <<>>
    /\ sensitive_data \in {<<>>, <<1>>}
    /\ evaluator_cycles = NoCount
    /\ max_evaluator_cycles = NoCount
    /\ preview_pdf_path = NoPath
    /\ final_pdf_path = NoPath
    /\ next_node = NoKey
    /\ user_approval = NoKey
    /\ hist = InitHist(NoKey)
    /\ manual_rectangles = <<>>
    /\ files = OriginalFiles
    /\ session = InitSession
    /\ ops = NoOps

NextPool ==
    \/ SubmitBoth
    \/ PageOcrFinishes
    \/ WordOcrFinishes
    \/ AsCompleted
    \/ LoopEnds
    \/ ExecutorExit
    \/ first_detection

SpecPool == InitPool /\ [][NextPool]_vars

\* ================================================================== claims

\* a is a prefix of b.
IsPrefix(a, b) == Len(a) <= Len(b) /\ SubSeq(b, 1, Len(a)) = a

\* C1.  Redaction is entered only directly after the Human Gate read an
\* Approve decision: whenever the graph is about to run the Redactor, the
\* step before it was an execution of the Human Gate and the decision that
\* execution read was "Yes" -- whatever the routing tag held at the start.
C1_RedactionOnlyAfterApprove ==
    pc = "Redactor" => (hist.last = "HumanInLoop" /\ hist.gateRead = "Yes")

\* C1 witness: the Redactor is about to run in a run whose record started
\* with a routing tag, after a Reject round and a later Approve.
C1_Witness ==
    pc = "Redactor" /\ hist.rejected /\ hist.gateRead = "Yes"

\* C2.  The Detection/Evaluation loop is bounded: Detection runs at most
\* max cycles + 1 times between an Intake and the Preview that follows it.
C2_LoopBounded ==
    hist.detRuns <= MaxCycles + 1

\* C2 witness: the loop has been left towards Preview after exactly
\* max cycles + 1 executions of Detection, with a positive ceiling.
C2_Witness ==
    /\ pc = "Highlighter"
    /\ max_evaluator_cycles >= 2
    /\ hist.detRuns = max_evaluator_cycles + 1

\* C3 as stated.  With max cycles = 3 and an Evaluator whose every call
\* reports issues with a feedback message, the loop is left after exactly 3
\* re-runs of Detection (4 executions), and by the ceiling.
C3_Original ==
    (pc = "Highlighter" /\ MaxCycles = 3 /\ hist.allIssues)
        => (hist.detRuns = 4 /\ hist.evalPath = "ceiling")

\* C3 as amended.  The same, for a round that starts with the loop counter
\* at 0 and reaches Evaluation with a non-empty guidance list.
C3_Amended ==
    (/\ pc = "Highlighter"
     /\ MaxCycles = 3
     /\ hist.allIssues
     /\ hist.startCycles = 0
     /\ sensitive_data_description # <<>>)
        => (hist.detRuns = 4 /\ hist.evalPath = "ceiling" /\ Cycles = 3)

\* C3 witness: such a round has ended at the ceiling.
C3_Witness ==
    /\ pc = "Highlighter"
    /\ MaxCycles = 3
    /\ hist.allIssues
    /\ hist.startCycles = 0
    /\ sensitive_data_description # <<>>
    /\ hist.detRuns = 4

\* C4.  The loop counter never exceeds the ceiling.
C4_CounterWithinCeiling ==
    Cycles <= MaxCycles

\* C4 witness: an Evaluation after a Reject round, with the counter at a
\* positive ceiling.
C4_Witness ==
    /\ hist.rejected
    /\ hist.last = "Evaluator"
    /\ max_evaluator_cycles >= 1
    /\ evaluator_cycles = max_evaluator_cycles

\* C5 as stated.  Every step leaves the guidance list it found as a prefix
\* of the guidance list it leaves.
C5_AppendOnly ==
    [][IsPrefix(sensitive_data_description, sensitive_data_description')]_vars

\* C6 as stated.  After a failed extraction the run does not go on to
\* Evaluation, Preview, Human Gate or Redaction, and no extraction is run
\* again after a failed one.
C6_HardFailure ==
    /\ hist.ocrFailed =>
           pc \notin {"Evaluator", "Highlighter", "HumanInLoop", "Redactor"}
    /\ ~hist.ocrRetried

\* C7.  Once both element lists are cached, no step changes either list and
\* an execution of Detection runs no extraction.
C7_CacheWriteOnce ==
    [][(page_level_pdf_elements # <<>> /\ word_level_pdf_elements # <<>>)
         => /\ page_level_pdf_elements' = page_level_pdf_elements
            /\ word_level_pdf_elements' = word_level_pdf_elements
            /\ (pc = "Detector" => ~hist'.extracted)]_vars

\* C7 witness: Detection has run again on a filled cache (a feedback cycle
\* after a Reject round) without extracting.
C7_Witness ==
    /\ page_level_pdf_elements # <<>>
    /\ word_level_pdf_elements # <<>>
    /\ hist.last = "Detector"
    /\ hist.rejected
    /\ hist.detRuns >= 2
    /\ ~hist.extracted

\* The stage transitions of the pipeline.
Transitions ==
    {<<"Orchestrator", "Searcher">>, <<"Orchestrator", "Detector">>,
     <<"Searcher", "Detector">>, <<"Detector", "Evaluator">>,
     <<"Evaluator", "Detector">>, <<"Evaluator", "Highlighter">>,
     <<"Highlighter", "HumanInLoop">>, <<"HumanInLoop", "HumanInLoop">>,
     <<"HumanInLoop", "Orchestrator">>, <<"HumanInLoop", "Redactor">>,
     <<"Redactor", END>>}

\* Values of the routing tag: every node name, a missing tag, an empty one,
\* END and a name no node has.
RoutingTags == Nodes \cup {NoKey, "", END, "Reviewer"}

\* C8.  Every node that returns hands over along one of the listed
\* transitions, and each router answers every value of the routing tag with
\* a node of its own path map.
C8_TransitionsExact ==
    [][/\ (hist'.last \in Nodes /\ pc' # Aborted) => <<pc, pc'>> \in Transitions
       /\ \A t \in RoutingTags \cup {next_node} :
             /\ <<"Orchestrator", route_from_orchestrator(t)>> \in Transitions
             /\ <<"Evaluator", route_from_evaluator(t)>> \in Transitions
             /\ <<"HumanInLoop", route_from_hitl(t)>> \in Transitions]_vars

\* C8 witness: the Evaluator left a tag its router does not know
\* ("HumanInLoop") and the pipeline went on to Preview.
C8_Witness ==
    pc = "Highlighter" /\ hist.last = "Evaluator" /\ next_node = "HumanInLoop"

\* C9.  An execution of the Human Gate with no decision stays at the gate
\* and changes no decision; with Reject it clears the decision and goes to
\* Intake; with Approve it clears the decision and goes to Redaction.  No
\* decision is applied twice: the gate has acted on at most as many
\* decisions as were supplied.
C9_GateConsumesDecision ==
    [][/\ (pc = "HumanInLoop" /\ hist'.last = "HumanInLoop") =>
             LET decision == StrOrEmpty(user_approval)
             IN  /\ decision = "Yes" =>
                        (pc' = "Redactor" /\ user_approval' = NoKey)
                 /\ decision = "No" =>
                        (pc' = "Orchestrator" /\ user_approval' = NoKey)
                 /\ decision \notin {"Yes", "No"} =>
                        (pc' = "HumanInLoop" /\ user_approval' = user_approval)
       /\ hist'.applied <= hist'.supplied]_vars

\* C9 witness: back at the gate after a Reject, with no new decision, the
\* gate ran and suspended again.
C9_Witness ==
    /\ pc = "HumanInLoop"
    /\ hist.last = "HumanInLoop"
    /\ hist.rejected
    /\ hist.gateRead = ""
    /\ user_approval = NoKey
    /\ hist.applied = hist.supplied

\* C10 as stated.  When Intake has run, the guidance list is non-empty.
C10_Original ==
    hist.last = "Orchestrator" => sensitive_data_description # <<>>

\* C10 as amended.  Intake leaves towards Context Lookup or Detection with
\* the guidance list it found, followed only by stripped, non-blank
\* descriptions; with a blank request the list is left as it was.
C10_Amended ==
    [][(pc = "Orchestrator" /\ hist'.last = "Orchestrator") =>
          /\ pc' \in {"Searcher", "Detector"}
          /\ IsPrefix(sensitive_data_description, sensitive_data_description')
          /\ \A i \in (Len(sensitive_data_description) + 1)
                         .. Len(sensitive_data_description') :
                /\ sensitive_data_description'[i] # ""
                /\ Strip(sensitive_data_description'[i]) =
                       sensitive_data_description'[i]
          /\ (StrOrEmpty(user_prompt) = "" =>
                 sensitive_data_description' = sensitive_data_description)]_vars

\* C10 witness: Intake has left towards Detection with an empty guidance
\* list although the request was not blank.
C10_Witness ==
    /\ hist.last = "Orchestrator"
    /\ pc = "Detector"
    /\ StrOrEmpty(user_prompt) # ""
    /\ sensitive_data_description = <<>>

\* The spots of the document that lie in a region of a list.
CoveredSpots(regions) ==
    {s \in Spots : \E i \in 1 .. Len(regions) : Covers(regions[i], s)}

\* The spots of a file that are no longer as uploaded.
RedactedSpots(content) == {s \in Spots : content.spots[s] # "intact"}

\* C11.  An Approve leaves the Sensitive Regions list as it found it, and
\* the regions the AI redaction commits in that Approve are exactly that
\* list, human edits and deletions included: same regions, same order,
\* none added, dropped or altered; the artifact it saves is redacted at
\* exactly the spots those regions cover.
C11_CommitsApprovedList ==
    [][ops'.last = "ApprovePreview" =>
          /\ sensitive_data' = sensitive_data
          /\ ops'.aiOut # NoPath =>
                 /\ ops'.aiRegions = sensitive_data
                 /\ ops'.aiIn = pdf_path
                 /\ (Exists(files', ops'.aiOut) /\ files[pdf_path] = OriginalContent) =>
                        RedactedSpots(files'[ops'.aiOut]) =
                            CoveredSpots(sensitive_data)
          /\ ops'.aiOut = NoPath => ops'.aiRegions = <<>>]_vars

\* C11 witness: the human replaced the detected region by another one at
\* the gate, and the Approve committed the edited list.
C11_Witness ==
    /\ ops.last = "ApprovePreview"
    /\ session.original_ai_detections = <<RegionA>>
    /\ sensitive_data = <<RegionC>>
    /\ ops.aiRegions = <<RegionC>>
    /\ Exists(files, ops.aiOut)
    /\ RedactedSpots(files[ops.aiOut]) = CoveredSpots(<<RegionC>>)

\* C12 as stated.  When an Approve with Manual Regions goes on to the
\* combined composition, the Sensitive Regions have been committed against
\* the original into artifact A in that Approve, the Manual Regions are
\* committed against A, and the final artifact is redacted wherever a
\* region of either list lies.
C12_CombinedOrder ==
    [][(/\ ops'.last = "ApprovePreview"
        /\ manual_rectangles # <<>>
        /\ ops'.aiBase # NoPath) =>
          /\ ops'.aiIn = OriginalPath
          /\ ops'.aiOut = ops'.aiBase
          /\ ops'.manIn = ops'.aiOut
          /\ Exists(files', final_pdf_path')
          /\ (CoveredSpots(sensitive_data) \cup CoveredSpots(manual_rectangles))
                 \subseteq RedactedSpots(files'[final_pdf_path'])]_vars

\* The corners of two regions are within the tolerance on one page.
CornersWithin(a, b, tolerance) ==
    /\ a.page_number = b.page_number
    /\ a.bbox.x0 - b.bbox.x0 < tolerance /\ b.bbox.x0 - a.bbox.x0 < tolerance
    /\ a.bbox.y0 - b.bbox.y0 < tolerance /\ b.bbox.y0 - a.bbox.y0 < tolerance

\* C13 as stated.  No redaction (AI-only, manual-only or combined) commits
\* two regions on one page whose top-left corners are within 5 units of
\* each other.
C13_NoDuplicateCommitted ==
    LET committed == ops.aiRegions \o ops.manRegions
    IN  \A i, j \in 1 .. Len(committed) :
           i < j => ~CornersWithin(committed[i], committed[j], 5)

\* C14.  The canvas handler treats a drawn rectangle as a duplicate of an
\* existing one exactly when both are on the same page and their top-left
\* x differ by less than 5 and their top-left y differ by less than 5: a
\* duplicate leaves the list as it is, any other rectangle is appended.
\* The corners (100,200) and (102,201) on page 2 are never both in a list
\* that was only drawn, and (100,200) and (140,200) go in as two entries
\* in either order.
C14_DuplicateRule ==
    [][ops'.last = "DrawRectangle" =>
          LET r == ops'.drawn[1]
              dup == \E i \in 1 .. Len(manual_rectangles) :
                        CornersWithin(manual_rectangles[i], r, 5)
          IN  /\ manual_rectangles' =
                     IF dup THEN manual_rectangles
                     ELSE Append(manual_rectangles, r)
              /\ ~({RegionA, RegionB} \subseteq Range(manual_rectangles'))
              /\ (manual_rectangles = <<RegionA>> /\ r = RegionC) =>
                     manual_rectangles' = <<RegionA, RegionC>>
              /\ (manual_rectangles = <<RegionC>> /\ r = RegionA) =>
                     manual_rectangles' = <<RegionC, RegionA>>]_vars

\* C14 witness: with the corner (100,200) in the list, a rectangle at
\* (105,200), exactly 5 away, has been added as a second entry.
C14_Witness ==
    /\ ops.last = "DrawRectangle"
    /\ ops.drawn = <<Rect(2, 105, 200, 135, 210)>>
    /\ manual_rectangles = <<RegionA, Rect(2, 105, 200, 135, 210)>>

\* C15 as stated.  No preview or redaction operation writes to or replaces
\* the file at the source document's path: the source document stays where
\* it was uploaded with its original content, and every path an operation
\* wrote or moved a file to differs from the path it read.
C15_SourceUntouched ==
    /\ Exists(files, OriginalPath)
    /\ files[OriginalPath] = OriginalContent
    /\ ops.aiOut # NoPath => ops.aiOut # ops.aiIn
    /\ ops.manOut # NoPath => ops.manOut # ops.manIn

\* C16 as stated.  Every redaction error (a requested region on a page
\* outside the document, or a failure while applying or saving) is
\* reported as a failed run, and the operation does not leave as the final
\* artifact a file that lacks a requested redaction.
C16_ErrorsReported ==
    ops.error =>
        /\ ops.reported
        /\ ops.last \in {"ApprovePreview", "RedactManualOnly"} =>
               \/ ~Exists(files, final_pdf_path)
               \/ CoveredSpots(ops.manAsked)
                      \subseteq RedactedSpots(files[final_pdf_path])

\* C18 as stated.  In no artifact is the content beneath a committed
\* region merely covered by the box: text and image content there is
\* removed from the file.
C18_ContentDestroyed ==
    \A path \in DOMAIN files :
        \A s \in Spots : files[path].spots[s] # "covered"

\* C19 as stated.  Whenever the pipeline enters Redaction after an
\* Approve, the stage sets the final artifact path on the pipeline record
\* (which it does only once the redactions are applied and saved) and the
\* run ends.
C19_Original ==
    [][(pc = "Redactor" /\ pc' # pc) =>
          /\ pc' = END
          /\ final_pdf_path' = AiOutputPath(pdf_path)]_vars

\* C19, amended.  Whenever the pipeline enters Redaction after an Approve:
\* with a document path and a non-empty Sensitive Regions list, either the
\* final artifact path is set to the redacted output of that document and
\* the run ends, or the redaction raises and the run is aborted with the
\* final artifact path as it was; with no document path or an empty list
\* the stage is short-circuited, the run ends and the record is unchanged.
\* Nothing else on the record changes in either case.
C19_Amended ==
    [][(pc = "Redactor" /\ pc' # pc) =>
          /\ hist.gateRead = "Yes"
          /\ IF pdf_path = NoPath \/ sensitive_data = <<>>
             THEN pc' = END /\ final_pdf_path' = final_pdf_path
             ELSE \/ pc' = END /\ final_pdf_path' = AiOutputPath(pdf_path)
                  \/ pc' = Aborted /\ final_pdf_path' = final_pdf_path
          /\ pdf_path' = pdf_path
          /\ sensitive_data' = sensitive_data
          /\ user_approval' = user_approval]_vars

\* C19 witness: a run that ended in Redaction with the final artifact path
\* set to the redacted output of the uploaded document.
C19_Witness ==
    /\ pc = END
    /\ hist.last = "Redactor"
    /\ hist.gateRead = "Yes"
    /\ sensitive_data # <<>>
    /\ final_pdf_path = AiOutputPath(OriginalPath)

\* C20.  Redaction composition is an order-independent, idempotent union.
\* For every file the two redactors were run on: the artifact of the AI
\* list followed by the manual list and the artifact of the manual list
\* followed by the AI list hold the same content; in each of them the
\* redacted spots are those already redacted in the file plus every spot
\* inside a region of either list, and every other spot is as it was;
\* committing the same list a second time gives the content the first
\* commit gave; and committing a list whose spots are already redacted
\* changes nothing.
C20_OrderIndependentUnion ==
    \A p \in DOMAIN files :
        LET a == AiOutputPath(p)
            m == ManualOutputPath(p)
            am == ManualOutputPath(a)
            ma == AiOutputPath(m)
            aa == AiOutputPath(a)
            mm == ManualOutputPath(m)
            union == RedactedSpots(files[p]) \cup CoveredSpots(sensitive_data)
                         \cup CoveredSpots(manual_rectangles)
        IN  /\ (Exists(files, am) /\ Exists(files, ma)) => files[am] = files[ma]
            /\ \A q \in {am, ma} :
                   Exists(files, q) =>
                       /\ RedactedSpots(files[q]) = union
                       /\ \A s \in Spots \ union : files[q].spots[s] = "intact"
            /\ Exists(files, aa) => files[aa] = files[a]
            /\ Exists(files, mm) => files[mm] = files[m]
            /\ (Exists(files, am)
                  /\ CoveredSpots(manual_rectangles) \subseteq RedactedSpots(files[a]))
                   => files[am] = files[a]

\* C20 witness: both orders have been committed against the uploaded
\* document with lists that cover different spots, and the AI list has
\* been committed a second time.
C20_Witness ==
    /\ sensitive_data = <<RegionA>>
    /\ manual_rectangles = <<RegionC>>
    /\ Exists(files, ManualOutputPath(AiOutputPath(OriginalPath)))
    /\ Exists(files, AiOutputPath(ManualOutputPath(OriginalPath)))
    /\ Exists(files, AiOutputPath(AiOutputPath(OriginalPath)))
    /\ RedactedSpots(files[ManualOutputPath(AiOutputPath(OriginalPath))])
           = CoveredSpots(<<RegionA, RegionC>>)

\* One box lies inside another.
BoxInside(inner, outer) ==
    /\ outer.x0 <= inner.x0 /\ inner.x1 <= outer.x1
    /\ outer.y0 <= inner.y0 /\ inner.y1 <= outer.y1

\* C17 as stated.  With the word elements [SEVIS, ID:, N0004705512] on
\* page 1, every region the Coordinate Mapper produces for the value
\* N0004705512 has the third element's box alone, which contains neither
\* the first nor the second element's box.
C17_ValueWordsOnly ==
    \A i \in 1 .. Len(sensitive_data) :
        (sensitive_data[i].page_number = 1
           /\ sensitive_data[i].content = "N0004705512") =>
            /\ sensitive_data[i].bbox = WordElements[3].bbox
            /\ ~BoxInside(WordElements[1].bbox, sensitive_data[i].bbox)
            /\ ~BoxInside(WordElements[2].bbox, sensitive_data[i].bbox)

\* C21 as stated, in the part a finite run decides.  From Intake the run
\* is never aborted before the Human Gate: whatever fails in a stage before
\* the gate, the pipeline moves on to the next stage.  (The claim adds that
\* the gate is eventually reached.)
C21_NeverAbortsBeforeGate ==
    pc = Aborted => hist.last = "Redactor"

\* C22.  When the Evaluator, below the ceiling, returns a verdict with
\* issues_found = true and a non-empty feedback message, exactly that
\* message is appended at the end of the guidance list, the loop counter
\* increases by exactly 1 and the next stage is Detection; for every other
\* verdict the guidance list and the counter are unchanged and the next
\* stage is Preview, which hands over to the Human Gate when it completes.
C22_VerdictHandling ==
    [][/\ (pc = "Evaluator" /\ hist'.evalPath \in {"feedback", "accept"}) =>
             LET v == hist'.verdict
             IN  /\ Cycles < MaxCycles
                 /\ IF v.issues_found /\ v.feedback_message # ""
                    THEN /\ sensitive_data_description' =
                                sensitive_data_description \o <<v.feedback_message>>
                         /\ Cycles' = Cycles + 1
                         /\ pc' = "Detector"
                    ELSE /\ sensitive_data_description' = sensitive_data_description
                         /\ Cycles' = Cycles
                         /\ pc' = "Highlighter"
                         /\ next_node' = "HumanInLoop"
       /\ (pc = "Highlighter" /\ pc' \notin {pc, Aborted}) => pc' = "HumanInLoop"]_vars

\* C22 witness: the Evaluator has just appended the feedback message "a"
\* to a guidance list that held one entry, raised the counter from 0 to 1
\* and routed to Detection.
C22_Witness ==
    /\ pc = "Detector"
    /\ hist.last = "Evaluator"
    /\ hist.verdict = Verdict(TRUE, "a")
    /\ sensitive_data_description = <<"a", "a">>
    /\ evaluator_cycles = 1

\* C23.  Across Detection/Evaluation cycles the length of the guidance list
\* never decreases; it grows in an Evaluation only when the Evaluator
\* appended its feedback there, and then by exactly one entry, the earlier
\* entries staying in place; Detection never changes the guidance list.
C23_GuidanceMonotone ==
    [][/\ pc = "Detector" => sensitive_data_description' = sensitive_data_description
       /\ pc = "Evaluator" =>
             /\ Len(sensitive_data_description') >= Len(sensitive_data_description)
             /\ SubSeq(sensitive_data_description', 1, Len(sensitive_data_description))
                    = sensitive_data_description
             /\ IF hist'.evalPath = "feedback"
                THEN Len(sensitive_data_description')
                         = Len(sensitive_data_description) + 1
                ELSE sensitive_data_description' = sensitive_data_description]_vars

\* C23 witness: after two feedback passes on a guidance list of two entries
\* the list has four, and the Detection that followed left it alone.
C23_Witness ==
    /\ pc = "Evaluator"
    /\ hist.last = "Detector"
    /\ hist.evalPath = "feedback"
    /\ hist.detRuns = 3
    /\ Len(sensitive_data_description) = 4

\* C24.  If the Evaluator's reasoning call fails, Evaluation accepts the
\* current state: the routing tag names the Human Gate, the next stage is
\* Preview, and the guidance list, the loop counter, the cached elements
\* and the Sensitive Regions are as they were.
C24_EvaluatorFailureAccepts ==
    [][(pc = "Evaluator" /\ hist'.evalPath = "error") =>
          /\ pc' = "Highlighter"
          /\ next_node' = "HumanInLoop"
          /\ sensitive_data_description' = sensitive_data_description
          /\ Cycles' = Cycles
          /\ page_level_pdf_elements' = page_level_pdf_elements
          /\ word_level_pdf_elements' = word_level_pdf_elements
          /\ sensitive_data' = sensitive_data]_vars

\* C24 witness: the reasoning call failed in the Evaluation after a
\* feedback pass; the pipeline is at Preview with the counter still 1 and
\* the Sensitive Regions and the cache in place.
C24_Witness ==
    /\ pc = "Highlighter"
    /\ hist.last = "Evaluator"
    /\ hist.evalPath = "error"
    /\ evaluator_cycles = 1
    /\ sensitive_data # <<>>
    /\ page_level_pdf_elements # <<>>

\* C25.  If the Classifier's reasoning call fails or returns a malformed
\* result in a Detection pass, the first pass or a feedback pass, Detection
\* completes without raising (the pipeline is at Evaluation) and the
\* Sensitive Regions list on the record is the empty list.
C25_ClassifierFailureEmpties ==
    [][(pc = "Detector" /\ hist'.classifier = "raised") =>
          /\ pc' = "Evaluator"
          /\ sensitive_data' = <<>>
          /\ page_level_pdf_elements' # <<>>
          /\ word_level_pdf_elements' # <<>>]_vars

\* C25 witness: the Classifier failed in a feedback pass on the cached
\* extraction, and the list is empty.
C25_Witness ==
    /\ pc = "Evaluator"
    /\ hist.last = "Detector"
    /\ hist.classifier = "raised"
    /\ hist.detRuns = 2
    /\ ~hist.extracted
    /\ sensitive_data = <<>>

\* C26 as stated.  When the guidance list is empty, or the extracted page
\* content is empty, Detection raises no error and yields no Sensitive
\* Regions.
C26_Original ==
    [][(pc = "Detector"
          /\ (sensitive_data_description = <<>> \/ page_level_pdf_elements' = <<>>)) =>
          /\ pc' = "Evaluator"
          /\ sensitive_data' = <<>>]_vars

\* C26, amended.  When the guidance list is empty the Content Classifier
\* raises no error and returns what its reasoning call, asked under a
\* built-in general guidance, returns: the empty list when the call fails,
\* so that Detection then yields no Sensitive Regions.  When the extracted
\* page content is empty the Classifier is not called, Detection raises no
\* error and there are no Sensitive Regions.
C26_Amended ==
    [][pc = "Detector" =>
          /\ (sensitive_data_description = <<>> \/ page_level_pdf_elements' = <<>>) =>
                 pc' = "Evaluator"
          /\ (sensitive_data_description = <<>> /\ hist'.classifier = "raised") =>
                 sensitive_data' = <<>>
          /\ page_level_pdf_elements' = <<>> =>
                 /\ hist'.classifier = "none"
                 /\ sensitive_data' = <<>>]_vars

\* C26 witness: with an empty guidance list the Classifier's call returned
\* values and Detection left Sensitive Regions on the record.
C26_Witness ==
    /\ pc = "Evaluator"
    /\ hist.last = "Detector"
    /\ hist.classifier = "returned"
    /\ sensitive_data_description = <<>>
    /\ sensitive_data # <<>>

\* The word elements of an item's page whose id is in the item's id list.
WordsNamed(item) ==
    {w \in Range(word_level_pdf_elements) :
        w.page_number = item.page_number /\ w.element_id \in item.element_ids}

\* box is the smallest box around the boxes of the words in ws.
SmallestBoxAround(box, ws) ==
    /\ \A w \in ws : /\ box.x0 <= w.bbox.x0 /\ box.y0 <= w.bbox.y0
                      /\ box.x1 >= w.bbox.x1 /\ box.y1 >= w.bbox.y1
    /\ \E w \in ws : box.x0 = w.bbox.x0
    /\ \E w \in ws : box.y0 = w.bbox.y0
    /\ \E w \in ws : box.x1 = w.bbox.x1
    /\ \E w \in ws : box.y1 = w.bbox.y1

\* C27.  Of the items the mapping step returned, those with at least one
\* word element of their page in their id list each give exactly one
\* region, in the order of the items, whose box is (min x0, min y0, max x1,
\* max y1) over the boxes of exactly those word elements; an item without
\* one (an empty id list, or ids absent from its page) is dropped, and
\* every other item is still produced.
C27_UnionBoxPerItem ==
    (ops.last = "Mapper" /\ ~ops.answer.raised) =>
        LET located == SelectSeq(ops.answer.items,
                                 LAMBDA item : WordsNamed(item) # {})
        IN  /\ Len(sensitive_data) = Len(located)
            /\ \A i \in 1 .. Len(located) :
                   /\ sensitive_data[i].page_number = located[i].page_number
                   /\ sensitive_data[i].content = located[i].content
                   /\ SmallestBoxAround(sensitive_data[i].bbox,
                                        WordsNamed(located[i]))

\* C27 witness: the provider named ids 1 and 3 on page 1 and, before that,
\* id 3 on page 2, which has no such word: the one region left is the box
\* around the first and the third word of page 1.
C27_Witness ==
    /\ ops.last = "Mapper"
    /\ Len(ops.answer.items) = 2
    /\ ops.answer.items[1].page_number = 2
    /\ ops.answer.items[1].element_ids = {3}
    /\ ops.answer.items[2].page_number = 1
    /\ ops.answer.items[2].element_ids = {1, 3}
    /\ Len(sensitive_data) = 1
    /\ sensitive_data[1].bbox = [x0 |-> 50, y0 |-> 100, x1 |-> 200, y1 |-> 112]

\* The min/max box of the polygon the page was analysed with, and the box
\* the word-level pass cached for it.
RawBox(page) ==
    IF page.polygon = <<>> THEN ZeroBox
    ELSE Box(Whole(MinOf(Xs(page.polygon))), Whole(MinOf(Ys(page.polygon))),
             Whole(MaxOf(Xs(page.polygon))), Whole(MaxOf(Ys(page.polygon))))

WordBox == word_level_pdf_elements[1].bbox

\* C28.  The Normalizer picks its conversion by unit, in this order:
\* inches multiply the min/max box by 72; centimeters multiply it by
\* 72/2.54, whatever the reported and native dimensions are; pixel-based
\* units, or known reported dimensions, scale x by native width / reported
\* width and y by native height / reported height; anything else is
\* returned unchanged.
C28_UnitPrecedence ==
    ops.last = "Extract" =>
        LET page == ops.analysed
            u == Lower(page.unit)
            known == page.width # 0 /\ page.height # 0
        IN  IF u = "inch"
            THEN SameBox(WordBox, Scaled(RawBox(page), Whole(72), Whole(72)))
            ELSE IF u \in {"cm", "centimeter"}
            THEN SameBox(WordBox, Scaled(RawBox(page), Frac(7200, 254),
                                         Frac(7200, 254)))
            ELSE IF known
            THEN SameBox(WordBox,
                         Scaled(RawBox(page),
                                Frac(page.pdf_pt_w, page.width),
                                Frac(page.pdf_pt_h, page.height)))
            ELSE u \notin PixelUnits => SameBox(WordBox, RawBox(page))

\* C29.  When the reported page width or height is zero or missing the
\* Normalizer never divides by zero, and for a pixel-based or a missing
\* unit it returns the polygon's min/max box unchanged.
C29_ZeroDimensionsPassThrough ==
    (ops.last = "Extract" /\ (ops.analysed.width = 0 \/ ops.analysed.height = 0)) =>
        /\ ~DividedByZero(WordBox)
        /\ Lower(ops.analysed.unit) \in PixelUnits \cup {""} =>
               SameBox(WordBox, RawBox(ops.analysed))

\* C30.  Every box the page/paragraph-level pass caches, like every box
\* the word-level pass caches, is the Normalizer's box of the element's
\* polygon for the page's unit and reported and native dimensions.
C30_BothPassesNormalized ==
    ops.last = "Extract" =>
        LET page == ops.analysed
            points == polygon_to_bbox_points(page.polygon, page.unit,
                                             page.width, page.height,
                                             page.pdf_pt_w, page.pdf_pt_h)
        IN  /\ \A i \in 1 .. Len(word_level_pdf_elements) :
                   SameBox(word_level_pdf_elements[i].bbox, points)
            /\ \A i \in 1 .. Len(page_level_pdf_elements) :
                   SameBox(page_level_pdf_elements[i].bbox, points)

\* C31.  The two passes are joined both-or-fail: the call returns only
\* after both tasks have finished, with each task's result in its own
\* list, whatever the order in which they finished and whichever failed;
\* the page-level cache is non-empty exactly when the word-level cache is;
\* and a Detection that lacks either list changes neither the caches nor
\* the Sensitive Regions.
C31_BothOrFail ==
    /\ [](ops.pool.at \in {"returned", "done"} =>
              /\ ops.pool.running = {}
              /\ ops.pool.page_elements = ops.pool.pageResult
              /\ ops.pool.word_elements = ops.pool.wordResult)
    /\ []((ops.pool.at = "done" /\ ops.pool.pageResult # <<>>
              /\ ops.pool.wordResult # <<>>) =>
              /\ page_level_pdf_elements = ops.pool.pageResult
              /\ word_level_pdf_elements = ops.pool.wordResult)
    /\ []((page_level_pdf_elements # <<>>)
              <=> (word_level_pdf_elements # <<>>))
    /\ [][(/\ ops.pool.at = "returned"
           /\ ops'.pool.at = "done"
           /\ (ops.pool.pageResult = <<>> \/ ops.pool.wordResult = <<>>)) =>
              /\ sensitive_data' = sensitive_data
              /\ page_level_pdf_elements' = page_level_pdf_elements
              /\ word_level_pdf_elements' = word_level_pdf_elements]_vars

\* C31 witness: the word-level task finished first with elements, the
\* page-level task after it with none; Detection is over, the caches are
\* empty and the Sensitive Regions from before are still there.
C31_Witness ==
    /\ ops.pool.at = "done"
    /\ ops.pool.order = <<"word", "page">>
    /\ ops.pool.wordResult # <<>>
    /\ ops.pool.pageResult = <<>>
    /\ page_level_pdf_elements = <<>>
    /\ word_level_pdf_elements = <<>>
    /\ sensitive_data = <<1>>

\* The fields of the pipeline record are left as they were.
RecordUnchanged ==
    UNCHANGED <<user_prompt, pdf_path, sensitive_data_description,
                search_query, page_level_pdf_elements,
                word_level_pdf_elements, sensitive_data, evaluator_cycles,
                max_evaluator_cycles, preview_pdf_path, final_pdf_path,
                next_node, user_approval>>

\* C32.  Detection with no document path, and Preview and Redaction with
\* no document path or an empty list of Sensitive Regions, leave every
\* field of the record as it was, write no file, and hand over to the
\* next stage (Evaluation, the Human Gate, the end of the run) without
\* running again.
C32_InputErrorsShortCircuit ==
    [][/\ (pc = "Detector" /\ pdf_path = NoPath) =>
              (RecordUnchanged /\ files' = files /\ pc' = "Evaluator")
       /\ (pc = "Highlighter" /\ (pdf_path = NoPath \/ sensitive_data = <<>>)) =>
              (RecordUnchanged /\ files' = files /\ pc' = "HumanInLoop")
       /\ (pc = "Redactor" /\ (pdf_path = NoPath \/ sensitive_data = <<>>)) =>
              (RecordUnchanged /\ files' = files /\ pc' = END)]_vars

\* C32 witness: a run on a record with a document whose Detection found
\* nothing was approved and has ended: Preview and Redaction were both
\* short-circuited, and there is neither a preview nor a final artifact.
C32_Witness ==
    /\ pc = END
    /\ hist.last = "Redactor"
    /\ pdf_path = OriginalPath
    /\ sensitive_data = <<>>
    /\ page_level_pdf_elements # <<>>
    /\ preview_pdf_path = NoPath
    /\ final_pdf_path = NoPath
    /\ DOMAIN files = {OriginalPath}

\* C33.  Every bounding box on the record and every bounding box in the
\* manual list has x0 <= x1 and y0 <= y1.
C33_BoxesWellFormed ==
    /\ \A i \in 1 .. Len(sensitive_data) :
           /\ sensitive_data[i].bbox.x0 <= sensitive_data[i].bbox.x1
           /\ sensitive_data[i].bbox.y0 <= sensitive_data[i].bbox.y1
    /\ \A i \in 1 .. Len(manual_rectangles) :
           /\ manual_rectangles[i].bbox.x0 <= manual_rectangles[i].bbox.x1
           /\ manual_rectangles[i].bbox.y0 <= manual_rectangles[i].bbox.y1

\* C38.  The manual list never holds two regions on the same page whose
\* top-left x differ by less than 5 and whose top-left y differ by less
\* than 5.
C38_ManualListDuplicateFree ==
    \A i, j \in 1 .. Len(manual_rectangles) :
        (i # j /\ manual_rectangles[i].page_number = manual_rectangles[j].page_number) =>
            \/ manual_rectangles[i].bbox.x0 - manual_rectangles[j].bbox.x0 >= 5
            \/ manual_rectangles[j].bbox.x0 - manual_rectangles[i].bbox.x0 >= 5
            \/ manual_rectangles[i].bbox.y0 - manual_rectangles[j].bbox.y0 >= 5
            \/ manual_rectangles[j].bbox.y0 - manual_rectangles[i].bbox.y0 >= 5

\* C34.  The loop counter is never reset or decreased, by a Reject round
\* or otherwise: over the whole run the Evaluator sends the run back to
\* Detection at most max cycles times, a ceiling once reached stays
\* reached, and an Evaluation at the ceiling makes no reasoning call and
\* goes to Preview and the Human Gate with the guidance as it was.
C34_CounterNeverReset ==
    /\ [](hist.reruns <= MaxCycles)
    /\ [][Cycles' >= Cycles /\ MaxCycles' = MaxCycles]_vars
    /\ [][IF pc = "Evaluator" /\ pc' = "Detector"
          THEN hist'.reruns = hist.reruns + 1 /\ Cycles' = Cycles + 1
          ELSE hist'.reruns = hist.reruns /\ Cycles' = Cycles]_vars
    /\ [][(pc = "Evaluator" /\ Cycles >= MaxCycles) =>
              /\ hist'.evalPath = "ceiling"
              /\ hist'.verdict = NoVerdict
              /\ pc' = "Highlighter"
              /\ next_node' = "HumanInLoop"
              /\ sensitive_data_description' = sensitive_data_description]_vars

\* C34 witness: the ceiling (2) was reached in the first round, the human
\* rejected, and the Evaluation of the second round, which started with
\* the counter at the ceiling, went on to Preview without evaluating.
C34_Witness ==
    /\ pc = "Highlighter"
    /\ hist.last = "Evaluator"
    /\ hist.evalPath = "ceiling"
    /\ hist.rejected
    /\ hist.startCycles = 2
    /\ hist.reruns = 2
    /\ evaluator_cycles = 2
    /\ max_evaluator_cycles = 2

\* C35.  Whenever the run waits at the Human Gate with a preview path on
\* the record, the file at that path is the one rendered from the
\* record's current Sensitive Regions: it carries a highlight for each of
\* them and for nothing else.
C35_PreviewIsCurrent ==
    (pc = "HumanInLoop" /\ preview_pdf_path # NoPath) =>
        /\ Exists(files, preview_pdf_path)
        /\ files[preview_pdf_path].highlights = Range(sensitive_data)

\* C36 as stated.  The artifact an Approve takes as the AI-redacted result,
\* which it reports as final or hands to the combined composition as its
\* base, was written by this Approve from the original document and the
\* Sensitive Regions approved now; a final path left on the record by an
\* earlier redaction is never taken in its place.
C36_AiResultIsFresh ==
    (ops.last = "ApprovePreview" /\ ops.aiBase # NoPath) =>
        /\ ops.aiOut = ops.aiBase
        /\ ops.aiIn = pdf_path
        /\ ops.aiRegions = AiAnnots(sensitive_data)

\* C37 as stated.  When an Approve asks the combined composition to commit
\* a non-empty manual list and the commit fails, no file is renamed to the
\* combined output name, the record does not name the combined output as
\* final, and the AI-only artifact stays at its own path.
C37_NoCombinedWithoutManual ==
    (/\ ops.last = "ApprovePreview"
     /\ ops.manAsked # <<>>
     /\ ops.manOut = NoPath) =>
        /\ ops.moved = NoPath
        /\ final_pdf_path # CombinedOutputPath(ops.aiBase)
        /\ Exists(files, ops.aiBase)

\* C39 as stated.  Reset Drawings, pressed after a workflow run and any
\* AI-region edits, deletions and earlier resets, sets the Sensitive
\* Regions to exactly the list that workflow run left and empties the
\* manual list.
C39_ResetRestoresDetections ==
    [][(ops'.last = "ResetDrawings" /\ session.runs > 0) =>
          /\ sensitive_data' = session.produced
          /\ manual_rectangles' = <<>>]_vars

====
